---- MODULE Spec2Model ----
(***************************************************************************)
(* SPARX-64/128 cipher engine (src/code/empirical-tests/src/ciphers/       *)
(* sparx64.cpp) and the threaded experiment harness (src/unnamed/part_002) *)
(* as state machines.  Arrays are functions over 0..n-1 as in the source.  *)
(***************************************************************************)
EXTENDS Integers, Sequences, FiniteSets, TLC

(***************************************************************************)
(* Program constants                                                       *)
(***************************************************************************)
NUM_STEPS == 8
NUM_ROUNDS_PER_STEP == 3
NUM_BRANCHES == 2
SPARX64_NUM_STATE_WORDS == 4
SPARX64_NUM_KEY_WORDS == 8
SPARX64_STATE_LENGTH == 8

\* number of rows of ctx->subkeys (NUM_ROUND_KEYS) and words per row
NUM_ROUND_KEYS == NUM_BRANCHES * NUM_STEPS + 1
ROW_WORDS == 2 * NUM_ROUNDS_PER_STEP
TABLE_WORDS == NUM_ROUND_KEYS * ROW_WORDS

\* the array holding the elements of seq at indices 0..Len(seq)-1
RECURSIVE Arr(_)
Arr(seq) ==
    IF Len(seq) = 0 THEN <<>>
    ELSE Arr(SubSeq(seq, 1, Len(seq) - 1)) @@ ((Len(seq) - 1) :> seq[Len(seq)])

\* Operator arguments are evaluated on demand; a loop demands the value it is
\* entered with before it does anything else, so that its evaluation depth
\* stays constant.
Strict(v) == v = v

\* a 4-word state
W4(a, b, c, d) == (0 :> a) @@ (1 :> b) @@ (2 :> c) @@ (3 :> d)

(***************************************************************************)
(* Machine arithmetic on uint16_t                                          *)
(***************************************************************************)
RECURSIVE Pow2(_)
Pow2(n) == IF n = 0 THEN 1 ELSE 2 * Pow2(n - 1)

Pow16 == Pow2(16)

\* storing an int into a uint16_t keeps the low 16 bits
U16(x) == x % Pow16

RECURSIVE XorBits(_, _, _)
XorBits(a, b, n) ==
    IF n = 0 THEN 0
    ELSE ((a + b) % 2) + 2 * XorBits(a \div 2, b \div 2, n - 1)

\* bitwise ^ on 4-bit digits, tabulated once
XorNibble == [a \in 0..15 |-> [b \in 0..15 |-> XorBits(a, b, 4)]]

\* bitwise ^ of two 16-bit words
XOR16(a, b) ==
      XorNibble[a % 16][b % 16]
    + 16 * XorNibble[(a \div 16) % 16][(b \div 16) % 16]
    + 256 * XorNibble[(a \div 256) % 16][(b \div 256) % 16]
    + 4096 * XorNibble[(a \div 4096) % 16][(b \div 4096) % 16]

\* bitwise ^ of two bytes
XOR8(a, b) ==
    XorNibble[a % 16][b % 16] + 16 * XorNibble[(a \div 16) % 16][(b \div 16) % 16]

\* the macros work on the int-promoted operand: the result is an int that is
\* only cut to 16 bits when it is stored
ROTL16(x, n) == (x * Pow2(n)) + (x \div Pow2(16 - n))
ROTR16(x, n) == (x \div Pow2(n)) + (x * Pow2(16 - n))

(***************************************************************************)
(* Basic functions and their inverses                                      *)
(***************************************************************************)
\* the four stores of A, in order: l, l, r, r
A_stores(l, r) ==
    LET l1 == U16(ROTR16(l, 7))
        l2 == U16(l1 + r)
        r1 == U16(ROTL16(r, 2))
        r2 == XOR16(r1, l2)
    IN  <<l1, l2, r1, r2>>

A_nowrap(l, r) ==
    LET l1 == U16(ROTR16(l, 7))
        l2 == l1 + r
        r1 == U16(ROTL16(r, 2))
        r2 == XOR16(r1, U16(l2))
    IN  <<l2, r2>>

\* the values of *l and *r after the second and the fourth store
AfterStores(st) == <<st[2], st[4]>>

A(l, r) == AfterStores(A_stores(l, r))

\* the four stores of A_inverse, in order: r, r, l, l
A_inverse_stores(l, r) ==
    LET r1 == XOR16(r, l)
        r2 == U16(ROTR16(r1, 2))
        l1 == U16(l - r2)
        l2 == U16(ROTL16(l1, 7))
    IN  <<r1, r2, l1, l2>>

\* the values of *l and *r after the fourth and the second store
AfterInverseStores(st) == <<st[4], st[2]>>

A_inverse(l, r) == AfterInverseStores(A_inverse_stores(l, r))

L2_noswap(state) ==
    LET tmp == U16(ROTL16(XOR16(state[0], state[1]), 8))
    IN  W4(state[0], state[1], XOR16(state[2], XOR16(state[0], tmp)),
           XOR16(state[3], XOR16(state[1], tmp)))

L2(state) ==
    LET tmp == U16(ROTL16(XOR16(state[0], state[1]), 8))
        s2  == XOR16(state[2], XOR16(state[0], tmp))
        s3  == XOR16(state[3], XOR16(state[1], tmp))
    IN  W4(s2, s3, state[0], state[1])

\* the mixing done before the swap is undone
L2_inverse_mixfirst(state) ==
    LET tmp == U16(ROTL16(XOR16(state[0], state[1]), 8))
        s2  == XOR16(state[2], XOR16(state[0], tmp))
        s3  == XOR16(state[3], XOR16(state[1], tmp))
    IN  W4(s2, s3, state[0], state[1])

L2_inverse(state) ==
    LET sw  == W4(state[2], state[3], state[0], state[1])
        tmp == U16(ROTL16(XOR16(sw[0], sw[1]), 8))
    IN  W4(sw[0], sw[1], XOR16(sw[2], XOR16(sw[0], tmp)),
           XOR16(sw[3], XOR16(sw[1], tmp)))

(***************************************************************************)
(* Big-endian conversions (utils/convert.cpp)                              *)
(***************************************************************************)
RECURSIVE to_uint16_loop(_, _, _, _)
to_uint16_loop(target, src, i, num_words) ==
    IF i >= num_words THEN target
    ELSE to_uint16_loop(
             target @@ (i :> (((src[2 * i] % 256) * 256) + (src[2 * i + 1] % 256))),
             src, i + 1, num_words)

\* to_uint16(uint16_t* target, const uint8_t* src, num_bytes)
to_uint16(src, num_bytes) == to_uint16_loop(<<>>, src, 0, num_bytes \div 2)

RECURSIVE to_uint8_loop(_, _, _, _)
to_uint8_loop(target, src, i, num_words) ==
    IF i >= num_words THEN target
    ELSE to_uint8_loop(
             target @@ ((2 * i) :> ((src[i] \div 256) % 256))
                    @@ ((2 * i + 1) :> (src[i] % 256)),
             src, i + 1, num_words)

\* to_uint8(uint8_t* target, const uint16_t* src, num_bytes)
to_uint8(src, num_bytes) == to_uint8_loop(<<>>, src, 0, num_bytes \div 2)

(***************************************************************************)
(* Key schedule                                                            *)
(***************************************************************************)
K_perm_nocounter(key, round) ==
    LET a  == A(key[0], key[1])
        k2 == U16(key[2] + a[1])
        k3 == U16(key[3] + a[2])
    IN  Arr(<<key[6], key[7], a[1], a[2], k2, k3, key[4], key[5]>>)

\* the counter added after the rotation instead of before it
K_perm_counter_last(key, round) ==
    LET a  == A(key[0], key[1])
        k2 == U16(key[2] + a[1])
        k3 == U16(key[3] + a[2])
    IN  Arr(<<key[6], key[7], a[1], a[2], k2, k3, key[4], U16(key[5] + U16(round))>>)

K_perm_64_128(key, round) ==
    LET a  == A(key[0], key[1])
        k2 == U16(key[2] + a[1])
        k3 == U16(key[3] + a[2])
        k7 == U16(key[7] + U16(round))
        tmp0 == key[6]
        tmp1 == k7
    IN  Arr(<<tmp0, tmp1, a[1], a[2], k2, k3, key[4], key[5]>>)

\* the loop over c of sparx_key_schedule: rows c..NUM_ROUND_KEYS-1 are filled
RECURSIVE KeyScheduleLoop(_, _, _)
KeyScheduleLoop(key, c, rows) ==
    IF Strict(key) /\ Strict(rows) /\ c >= NUM_ROUND_KEYS THEN rows
    ELSE KeyScheduleLoop(
             K_perm_64_128(key, c + 1), c + 1,
             [rows EXCEPT ![c] = Arr(<<key[0], key[1], key[2], key[3], key[4], key[5]>>)])

ZeroRow == Arr(<<0, 0, 0, 0, 0, 0>>)
ZeroTable ==
    Arr(<<ZeroRow, ZeroRow, ZeroRow, ZeroRow, ZeroRow, ZeroRow, ZeroRow, ZeroRow, ZeroRow,
          ZeroRow, ZeroRow, ZeroRow, ZeroRow, ZeroRow, ZeroRow, ZeroRow, ZeroRow>>)

\* sparx_key_schedule(ctx, uint16_t master_key[8])
sparx_key_schedule(master_key) == KeyScheduleLoop(master_key, 0, ZeroTable)

\* sparx_key_schedule(ctx, uint8_t master_key[16])
sparx_key_schedule_bytes(master_key) ==
    sparx_key_schedule(to_uint16(master_key, 2 * SPARX64_NUM_KEY_WORDS))


(***************************************************************************)
(* Subkey table access.  ctx->subkeys is uint16_t[17][6], one contiguous   *)
(* block of TABLE_WORDS words: subkeys[c][i] is the word at c*6 + i of the *)
(* block.  An index that leaves the block reads whatever the neighbouring  *)
(* memory holds; that word is the caller-chosen `fill`.                    *)
(***************************************************************************)
InTable(c, i) == (c * ROW_WORDS + i >= 0) /\ (c * ROW_WORDS + i < TABLE_WORDS)

SubkeyRead(subkeys, c, i, fill) ==
    LET flat == c * ROW_WORDS + i
    IN  IF InTable(c, i) THEN subkeys[flat \div ROW_WORDS][flat % ROW_WORDS]
        ELSE fill

(***************************************************************************)
(* Encryption and decryption logic (static functions on uint16_t[4])       *)
(***************************************************************************)
\* loop body: xor the subkey pair of round r into branch b, then A
\* branch b of state holds the pair lr
StoreBranch(state, b, lr) == [state EXCEPT ![2 * b] = lr[1], ![2 * b + 1] = lr[2]]

\* lr ^= (k0, k1)
XorPair(lr, k0, k1) == <<XOR16(lr[1], k0), XOR16(lr[2], k1)>>

EncRound(subkeys, state, row, b, r, fill) ==
    StoreBranch(state, b,
                A(XOR16(state[2 * b], SubkeyRead(subkeys, row, 2 * r, fill)),
                  XOR16(state[2 * b + 1], SubkeyRead(subkeys, row, 2 * r + 1, fill))))

\* loop body: A_inverse on branch b, then xor the subkey pair of round r
DecRound(subkeys, state, row, b, r, fill) ==
    StoreBranch(state, b,
                XorPair(A_inverse(state[2 * b], state[2 * b + 1]),
                        SubkeyRead(subkeys, row, 2 * r, fill),
                        SubkeyRead(subkeys, row, 2 * r + 1, fill)))

\* for (r = from_round-1; r < to_round; ++r) of sparx_encrypt_rounds
RECURSIVE EncRoundsInner(_, _, _, _, _, _, _)
EncRoundsInner(subkeys, state, s, b, r, to_round, fill) ==
    IF Strict(state) /\ r >= to_round THEN state
    ELSE EncRoundsInner(subkeys,
                        EncRound(subkeys, state, s * NUM_BRANCHES + b, b, r, fill),
                        s, b, r + 1, to_round, fill)

\* for (b = 0; b < NUM_BRANCHES; ++b) of sparx_encrypt_rounds
RECURSIVE EncRoundsOuter(_, _, _, _, _, _, _)
EncRoundsOuter(subkeys, state, s, b, from_round, to_round, fill) ==
    IF Strict(state) /\ b >= NUM_BRANCHES THEN state
    ELSE EncRoundsOuter(subkeys,
                        EncRoundsInner(subkeys, state, s, b, from_round - 1,
                                       to_round, fill),
                        s, b + 1, from_round, to_round, fill)

sparx_encrypt_rounds_with_layer(subkeys, state, from_round, to_round, fill) ==
    LET out == EncRoundsOuter(subkeys, state, from_round \div NUM_ROUNDS_PER_STEP, 0,
                              from_round, to_round, fill)
    IN  IF to_round % NUM_ROUNDS_PER_STEP = 0 THEN L2(out) ELSE out

\* static sparx_encrypt_rounds(ctx, state, from_round, to_round)
sparx_encrypt_rounds_state(subkeys, state, from_round, to_round, fill) ==
    EncRoundsOuter(subkeys, state, from_round \div NUM_ROUNDS_PER_STEP, 0,
                   from_round, to_round, fill)

\* the b and r loops of one step s of sparx_encrypt_steps
RECURSIVE EncStepRounds(_, _, _, _, _)
EncStepRounds(subkeys, state, s, b, r) ==
    IF Strict(state) /\ b >= NUM_BRANCHES THEN state
    ELSE IF r >= NUM_ROUNDS_PER_STEP THEN EncStepRounds(subkeys, state, s, b + 1, 0)
    ELSE EncStepRounds(subkeys,
                       EncRound(subkeys, state, s * NUM_BRANCHES + b, b, r, 0),
                       s, b, r + 1)

\* for (s = from_step-1; s < to_step; ++s) of sparx_encrypt_steps
RECURSIVE EncStepsLoop(_, _, _, _)
EncStepsLoop(subkeys, state, s, to_step) ==
    IF Strict(state) /\ s >= to_step THEN state
    ELSE EncStepsLoop(subkeys, L2(EncStepRounds(subkeys, state, s, 0, 0)), s + 1, to_step)

\* xor of the last subkey row into every branch
Whitening(subkeys, state) ==
    LET last == subkeys[NUM_BRANCHES * NUM_STEPS]
    IN  W4(XOR16(state[0], last[0]), XOR16(state[1], last[1]),
           XOR16(state[2], last[2]), XOR16(state[3], last[3]))

EncStepsLoop_noL_last(subkeys, state, s, to_step) ==
    IF s >= to_step THEN state
    ELSE IF s = NUM_STEPS - 1 THEN EncStepRounds(subkeys, state, s, 0, 0)
    ELSE EncStepsLoop(subkeys, L2(EncStepRounds(subkeys, state, s, 0, 0)),
                      s + 1, to_step)

WhitenedAlways(subkeys, state, to_step) == Whitening(subkeys, state)

\* if (to_step == NUM_STEPS) of sparx_encrypt_steps and sparx_decrypt_steps
WhitenedAt(subkeys, state, to_step) ==
    IF to_step = NUM_STEPS THEN Whitening(subkeys, state) ELSE state

sparx_encrypt_steps_skipL(subkeys, state, from_step, to_step) ==
    WhitenedAt(subkeys,
               IF to_step = NUM_STEPS
               THEN EncStepsLoop_noL_last(subkeys,
                        EncStepsLoop(subkeys, state, from_step - 1, to_step - 1),
                        to_step - 1, to_step)
               ELSE EncStepsLoop(subkeys, state, from_step - 1, to_step),
               to_step)

\* static sparx_encrypt_steps(ctx, state, from_step, to_step)
sparx_encrypt_steps_state(subkeys, state, from_step, to_step) ==
    WhitenedAt(subkeys, EncStepsLoop(subkeys, state, from_step - 1, to_step), to_step)

\* the b and r loops of one step s of sparx_decrypt_steps (r descending)
RECURSIVE DecStepRounds(_, _, _, _, _)
DecStepRounds(subkeys, state, s, b, r) ==
    IF Strict(state) /\ b >= NUM_BRANCHES THEN state
    ELSE IF r < 0 THEN DecStepRounds(subkeys, state, s, b + 1, NUM_ROUNDS_PER_STEP - 1)
    ELSE DecStepRounds(subkeys,
                       DecRound(subkeys, state, s * NUM_BRANCHES + b, b, r, 0),
                       s, b, r - 1)

\* for (int s = to_step-1; s >= last_step; --s) of sparx_decrypt_steps
RECURSIVE DecStepsLoop(_, _, _, _)
DecStepsLoop(subkeys, state, s, last_step) ==
    IF Strict(state) /\ s < last_step THEN state
    ELSE DecStepsLoop(subkeys,
                      DecStepRounds(subkeys, L2_inverse(state), s, 0,
                                    NUM_ROUNDS_PER_STEP - 1),
                      s - 1, last_step)

sparx_decrypt_steps_nostrip(subkeys, state, from_step, to_step) ==
    DecStepsLoop(subkeys, state, to_step - 1, from_step - 1)

\* static sparx_decrypt_steps(ctx, state, from_step, to_step)
sparx_decrypt_steps_state(subkeys, state, from_step, to_step) ==
    DecStepsLoop(subkeys, WhitenedAt(subkeys, state, to_step), to_step - 1, from_step - 1)

(***************************************************************************)
(* API                                                                     *)
(***************************************************************************)
\* sparx_linear_layer(p, c) on byte arrays
sparx_linear_layer(p) ==
    to_uint8(L2(to_uint16(p, SPARX64_STATE_LENGTH)), SPARX64_STATE_LENGTH)

\* sparx_invert_linear_layer(c, p) on byte arrays
sparx_invert_linear_layer(c) ==
    to_uint8(L2_inverse(to_uint16(c, SPARX64_STATE_LENGTH)), SPARX64_STATE_LENGTH)

\* sparx_encrypt_rounds(ctx, uint8_t p, uint8_t c, from_round, to_round)
sparx_encrypt_rounds(subkeys, p, from_round, to_round, fill) ==
    to_uint8(sparx_encrypt_rounds_state(subkeys, to_uint16(p, SPARX64_STATE_LENGTH),
                                        from_round, to_round, fill),
             SPARX64_STATE_LENGTH)

\* sparx_encrypt_steps(ctx, uint8_t p, uint8_t c, from_step, to_step)
sparx_encrypt_steps(subkeys, p, from_step, to_step) ==
    to_uint8(sparx_encrypt_steps_state(subkeys, to_uint16(p, SPARX64_STATE_LENGTH),
                                       from_step, to_step),
             SPARX64_STATE_LENGTH)

\* sparx_decrypt_steps(ctx, uint8_t c, uint8_t p, from_step, to_step)
sparx_decrypt_steps(subkeys, c, from_step, to_step) ==
    to_uint8(sparx_decrypt_steps_state(subkeys, to_uint16(c, SPARX64_STATE_LENGTH),
                                       from_step, to_step),
             SPARX64_STATE_LENGTH)

\* sparx_encrypt(ctx, uint16_t p, uint16_t c): all NUM_STEPS steps
sparx_encrypt(subkeys, p) == sparx_encrypt_steps_state(subkeys, p, 1, NUM_STEPS)

\* sparx_decrypt(ctx, uint16_t c, uint16_t p): all NUM_STEPS steps
sparx_decrypt(subkeys, c) == sparx_decrypt_steps_state(subkeys, c, 1, NUM_STEPS)

\* for (int r = num_rounds-1; r >= 0; --r) within for (b ...), with s = 0
RECURSIVE DecRoundsNumLoop(_, _, _, _, _)
DecRoundsNumLoop(subkeys, state, b, r, num_rounds) ==
    IF Strict(state) /\ b >= NUM_BRANCHES THEN state
    ELSE IF r < 0 THEN DecRoundsNumLoop(subkeys, state, b + 1, num_rounds - 1, num_rounds)
    ELSE DecRoundsNumLoop(subkeys,
                          DecRound(subkeys, state, 0 * NUM_BRANCHES + b, b, r, 0),
                          b, r - 1, num_rounds)

\* the loops with the step index taken from num_rounds
RECURSIVE DecRoundsNumLoopAt(_, _, _, _, _, _)
DecRoundsNumLoopAt(subkeys, state, s, b, r, num_rounds) ==
    IF Strict(state) /\ b >= NUM_BRANCHES THEN state
    ELSE IF r < 0
         THEN DecRoundsNumLoopAt(subkeys, state, s, b + 1, num_rounds - 1, num_rounds)
    ELSE DecRoundsNumLoopAt(subkeys,
                            DecRound(subkeys, state, s * NUM_BRANCHES + b, b, r, 0),
                            s, b, r - 1, num_rounds)

sparx_decrypt_rounds_num_step_from_arg(subkeys, state, num_rounds) ==
    DecRoundsNumLoopAt(subkeys, state, num_rounds \div NUM_ROUNDS_PER_STEP, 0,
                       num_rounds - 1, num_rounds)

\* static sparx_decrypt_rounds(ctx, state, num_rounds)
sparx_decrypt_rounds_num_state(subkeys, state, num_rounds) ==
    DecRoundsNumLoop(subkeys, state, 0, num_rounds - 1, num_rounds)

\* sparx_decrypt_rounds(ctx, uint8_t c, uint8_t p, num_rounds)
sparx_decrypt_rounds_num(subkeys, c, num_rounds) ==
    to_uint8(sparx_decrypt_rounds_num_state(subkeys, to_uint16(c, SPARX64_STATE_LENGTH),
                                            num_rounds),
             SPARX64_STATE_LENGTH)

\* sparx_encrypt_rounds(ctx, uint8_t p, uint8_t c, num_rounds): the static
\* overload runs rounds 1..num_rounds
sparx_encrypt_rounds_num(subkeys, p, num_rounds, fill) ==
    sparx_encrypt_rounds(subkeys, p, 1, num_rounds, fill)

\* sparx_encrypt_steps(ctx, uint8_t p, uint8_t c, num_steps)
sparx_encrypt_steps_num(subkeys, p, num_steps) ==
    to_uint8(sparx_encrypt_steps_state(subkeys, to_uint16(p, SPARX64_STATE_LENGTH),
                                       1, num_steps),
             SPARX64_STATE_LENGTH)

\* sparx_decrypt_steps(ctx, uint8_t c, uint8_t p, num_steps)
sparx_decrypt_steps_num(subkeys, c, num_steps) ==
    to_uint8(sparx_decrypt_steps_state(subkeys, to_uint16(c, SPARX64_STATE_LENGTH),
                                       1, num_steps),
             SPARX64_STATE_LENGTH)

(***************************************************************************)
(* Helpers of the experiments (utils/xor.cpp, utils/convert.cpp)           *)
(***************************************************************************)
RECURSIVE xor_difference_loop(_, _, _, _, _)
xor_difference_loop(target, lhs, rhs, i, num_bytes) ==
    IF i >= num_bytes THEN target
    ELSE xor_difference_loop(target @@ (i :> XOR8(lhs[i], rhs[i])), lhs, rhs,
                             i + 1, num_bytes)

\* xor_difference(uint8_t* target, lhs, rhs, num_bytes)
xor_difference(lhs, rhs, num_bytes) == xor_difference_loop(<<>>, lhs, rhs, 0, num_bytes)

\* A uint64_t is held as its four base-2^16 digits, most significant first.
\* to_uint64(const uint16_t src[4]): src[0] << 48 | src[1] << 32 | ...
to_uint64(src) == <<src[0] % Pow16, src[1] % Pow16, src[2] % Pow16, src[3] % Pow16>>

RECURSIVE AndBits(_, _, _)
AndBits(a, b, n) ==
    IF n = 0 THEN 0
    ELSE ((a % 2) * (b % 2)) + 2 * AndBits(a \div 2, b \div 2, n - 1)

\* bitwise ^ and & of two uint64_t, digit by digit
XOR64(a, b) == [i \in 1..4 |-> XOR16(a[i], b[i])]
AND64(a, b) == [i \in 1..4 |-> AndBits(a[i], b[i], 16)]

(***************************************************************************)
(* Trail propagation: two states encrypted in lock step, their difference  *)
(* printed after every round, after every linear layer and after the       *)
(* whitening.  A trail is <<pair of states, differences printed so far>>.  *)
(***************************************************************************)
\* xor_difference(delta, state1, state2) on uint16_t[4]
xor_difference_words(state1, state2) ==
    W4(XOR16(state1[0], state2[0]), XOR16(state1[1], state2[1]),
       XOR16(state1[2], state2[2]), XOR16(state1[3], state2[3]))

\* print_difference: the difference that print_hex writes
print_difference(state1, state2) == xor_difference_words(state1, state2)

TrailPrint(pair, out) == <<pair, Append(out, print_difference(pair[1], pair[2]))>>

\* for (b = 0; b < NUM_BRANCHES; ++b): the round on state1, then on state2
RECURSIVE TrailBranches(_, _, _, _, _)
TrailBranches(subkeys, pair, s, r, b) ==
    IF Strict(pair) /\ b >= NUM_BRANCHES THEN pair
    ELSE TrailBranches(subkeys,
                       [i \in 1..2 |->
                           EncRound(subkeys, pair[i], s * NUM_BRANCHES + b, b, r, 0)],
                       s, r, b + 1)

\* for (r = 0; r < NUM_ROUNDS_PER_STEP; ++r)
RECURSIVE TrailRounds(_, _, _, _)
TrailRounds(subkeys, t, s, r) ==
    IF Strict(t) /\ r >= NUM_ROUNDS_PER_STEP THEN t
    ELSE TrailRounds(subkeys,
                     TrailPrint(TrailBranches(subkeys, t[1], s, r, 0), t[2]),
                     s, r + 1)

TrailLinear_one_sided(t) == TrailPrint(<<L2(t[1][1]), t[1][2]>>, t[2])

\* SPARX_L(state1); SPARX_L(state2); print_difference
TrailLinear(t) == TrailPrint([i \in 1..2 |-> L2(t[1][i])], t[2])

\* for (s = 0; s < num_steps; ++s)
RECURSIVE TrailSteps(_, _, _, _)
TrailSteps(subkeys, t, s, num_steps) ==
    IF Strict(t) /\ s >= num_steps THEN t
    ELSE TrailSteps(subkeys, TrailLinear(TrailRounds(subkeys, t, s, 0)),
                    s + 1, num_steps)

\* if (num_steps == SPARX64_NUM_STEPS): the whitening, and one more print
TrailWhitened(subkeys, t, num_steps) ==
    IF num_steps = NUM_STEPS
    THEN TrailPrint([i \in 1..2 |-> Whitening(subkeys, t[1][i])], t[2])
    ELSE t

\* the differences that internal_sparx_encrypt_steps_trail prints, in order
internal_sparx_encrypt_steps_trail(subkeys, state1, state2, num_steps) ==
    TrailWhitened(subkeys,
                  TrailSteps(subkeys, TrailPrint(<<state1, state2>>, <<>>), 0,
                             num_steps),
                  num_steps)[2]

\* sparx_encrypt_steps_trail(ctx, uint16_t p1, uint16_t p2, num_steps)
sparx_encrypt_steps_trail(subkeys, p1, p2, num_steps) ==
    internal_sparx_encrypt_steps_trail(subkeys, p1, p2, num_steps)

(***************************************************************************)
(* Inputs of the model                                                     *)
(***************************************************************************)
\* master key, plaintext and ciphertext of sparx-64-tests.cpp
SPARX_64_128_KEY ==
    Arr(<<\h0011, \h2233, \h4455, \h6677, \h8899, \haabb, \hccdd, \heeff>>)
SPARX_64_128_PLAINTEXT == W4(\h0123, \h4567, \h89ab, \hcdef)
SPARX_64_128_CIPHERTEXT == W4(\h2bbe, \hf152, \h01f5, \h5f98)

OtherKey ==
    Arr(<<\hffff, \h0000, \h8000, \h7fff, \h0001, \hfffe, \h1234, \habcd>>)

Keys == {SPARX_64_128_KEY, OtherKey}
KeyBytes == {to_uint8(k, 2 * SPARX64_NUM_KEY_WORDS) : k \in Keys}

TextWords ==
    {SPARX_64_128_PLAINTEXT, W4(0, 0, 0, 0), W4(\hffff, \h8000, \h802a, \hd4a8)}
TextBytes == {to_uint8(w, SPARX64_STATE_LENGTH) : w \in TextWords}

\* 16-bit words around the wrap-around and sign boundaries
WordSamples ==
    {0, 1, \h007f, \h0080, \h01ff, \h7fff, \h8000, \hff80, \hfffe, \hffff,
     \h0123, \h802a, \hd4a8, \haaaa}

\* states for the linear layer
LinearTexts ==
    {to_uint8(W4(a, b, d, XOR16(a, d)), SPARX64_STATE_LENGTH) :
        a \in WordSamples, b \in {0, \h00ff, \hd4a8, \hffff}, d \in {0, \h0123, \h8000}}

\* what a read beyond the subkey table may return
Fills == {0, \hffff}

\* master keys for the key schedule on its own
ScheduleKeys ==
    {Arr(<<a, b, \h8000, a, b, \h7fff, a, b>>) : a \in WordSamples, b \in WordSamples}

\* plaintext differences of the 4-round characteristic 0x802A/0xD4A8, in
\* either branch or in both
TrailDeltas ==
    {W4(\h802a, \hd4a8, 0, 0), W4(0, 0, \h802a, \hd4a8),
     W4(\h802a, \hd4a8, \h802a, \hd4a8)}

\* the numbers of steps trails are run for
TrailSteps_num == 1..NUM_STEPS

\* rounds are counted 1..NUM_ROUNDS over the whole cipher
NUM_ROUNDS == NUM_STEPS * NUM_ROUNDS_PER_STEP

\* how many loop iterations are followed after a loop counter has wrapped
MaxWrap == 2

(***************************************************************************)
(* size_t loop counters.  A size_t value within MaxWrap of a multiple of   *)
(* 2^64 is held as its signed reading: -k stands for 2^64 - k.  Unsigned   *)
(* comparison puts every wrapped value above every small one; the index    *)
(* arithmetic c*6 + 2*r modulo 2^64 is linear in the signed reading.       *)
(***************************************************************************)
SizeGE(a, b) == IF (a < 0) = (b < 0) THEN a >= b ELSE a < 0

(***************************************************************************)
(* State                                                                   *)
(***************************************************************************)
VARIABLES
    master,     \* the 8 words of the master key that was scheduled
    keyed,      \* sparx_key_schedule has filled ctx
    subkeys,    \* ctx->subkeys
    p,          \* the caller's input buffer of the last forward call
    c,          \* its output buffer
    q,          \* the output buffer of the inverse call on c
    fwd,        \* the last forward call: [op, from, to]
    inv,        \* the inverse call made on its output: [op, from, to]
    pc,         \* "idle", or "dec_rounds" inside sparx_decrypt_rounds
    dr,         \* locals of the running sparx_decrypt_rounds(from_round, to_round)
    \* A and A_inverse applied to one word pair
    a0,         \* the pair (l, r) the run started from
    al, ar,     \* *l and *r now
    astage,     \* "in", "mid" (after A), "out" (after A_inverse)
    astores,    \* the words stored by the last function applied
    \* one sub-experiment of the threaded harness
    hmode,      \* which program runs: "boomerang" or "truncated"
    hctx,       \* experiment_ctx_t
    nthreads,   \* the number of worker threads the build starts
    entropy,    \* the random words the generators deliver, by trial index
    hpc,        \* position of the main thread
    mi,         \* loop counter i of the main thread
    offset,     \* num_texts_per_key / nthreads
    counter,    \* the shared std::atomic<size_t>
    workers,    \* per worker: position, from, to, loop counter, num_collisions
    outcome,    \* the outcome of the loop body, by random word
    held,       \* the trial indices whose match predicate held
    printed,    \* counter.load() as printed after the joins
    \* the loop over the keys around the sub-experiments
    num_keys,   \* ctx->num_keys
    ki,         \* loop counter i of run_experiments
    ctx_num_collisions, \* ctx->num_collisions
    reports,    \* the per-key counts printed so far
    average,    \* the terminal output: <<>> or <<numerator, denominator>>
    \* the utilities on their own
    runs,       \* runs of experiment_thread, each with the locals of its call
    rd,         \* a call of get_random_from_dev_urandom
    it,         \* a StateIterator and the values it has returned
    accesses,   \* <<thread, object, kind>>: thread has read or written object
    conv,       \* a buffer taken through the conversions of utils/convert.cpp
    chk         \* a call of check_difference and the memory it runs in

cipherVars == <<master, keyed, subkeys, p, c, q, fwd, inv, pc, dr>>
aVars == <<a0, al, ar, astage, astores>>
harnessVars == <<hmode, hctx, nthreads, entropy, hpc, mi, offset, counter, workers,
                 outcome, held, printed>>
frontVars == <<num_keys, ki, ctx_num_collisions, reports, average>>
sideVars == <<runs, rd, it, accesses, conv, chk>>

NoCall == [op |-> "none", from |-> 0, to |-> 0]
NoLocals == [state |-> <<>>, from |-> 0, to |-> 0, s |-> 0, b |-> 0, r |-> 0,
             fill |-> -1, iters |-> 0]

InitCipher ==
    /\ master = <<>>
    /\ keyed = FALSE
    /\ subkeys = ZeroTable
    /\ p = <<>>
    /\ c = <<>>
    /\ q = <<>>
    /\ fwd = NoCall
    /\ inv = NoCall
    /\ pc = "idle"
    /\ dr = NoLocals

\* no experiment is running
HarnessIdle ==
    /\ hmode = "none" /\ hctx = <<>> /\ nthreads = 0 /\ entropy = <<>>
    /\ hpc = "none" /\ mi = 0 /\ offset = 0 /\ counter = 0
    /\ workers = <<>> /\ outcome = <<>> /\ held = {} /\ printed = -1
    /\ num_keys = 0 /\ ki = 0 /\ ctx_num_collisions = 0
    /\ reports = <<>> /\ average = <<>>

\* no utility is in use
SideIdle == runs = <<>> /\ rd = <<>> /\ it = <<>> /\ accesses = {} /\ conv = <<>> /\ chk = <<>>

(***************************************************************************)
(* Operations of the cipher engine                                         *)
(***************************************************************************)
\* A key is scheduled before any call is made with it; the model then follows
\* one forward call and the inverse call on its output.
Rekeyed(key, table) ==
    /\ pc = "idle" /\ fwd.op = "none"
    /\ master' = key
    /\ keyed' = TRUE
    /\ subkeys' = table
    /\ p' = <<>> /\ c' = <<>> /\ q' = <<>>
    /\ fwd' = NoCall /\ inv' = NoCall
    /\ UNCHANGED <<pc, dr, aVars, harnessVars, frontVars, sideVars>>

KeySchedule(k) == Rekeyed(k, sparx_key_schedule(k))

KeyScheduleBytes(kb) ==
    Rekeyed(to_uint16(kb, 2 * SPARX64_NUM_KEY_WORDS), sparx_key_schedule_bytes(kb))

\* a forward call on input x with output out
Forward(op, x, out, from, to) ==
    /\ keyed /\ pc = "idle" /\ fwd.op = "none"
    /\ p' = x
    /\ c' = out
    /\ q' = <<>>
    /\ fwd' = [op |-> op, from |-> from, to |-> to]
    /\ inv' = NoCall
    /\ UNCHANGED <<master, keyed, subkeys, pc, dr, aVars, harnessVars, frontVars, sideVars>>

\* the inverse call on the output of the last forward call
Inverse(fop, iop, out) ==
    /\ keyed /\ pc = "idle"
    /\ fwd.op = fop /\ inv.op = "none"
    /\ q' = out
    /\ inv' = [op |-> iop, from |-> fwd.from, to |-> fwd.to]
    /\ UNCHANGED <<master, keyed, subkeys, p, c, fwd, pc, dr, aVars, harnessVars, frontVars, sideVars>>

Encrypt(x) == Forward("encrypt", x, sparx_encrypt(subkeys, x), 1, NUM_STEPS)

Decrypt == Inverse("encrypt", "decrypt", sparx_decrypt(subkeys, c))

EncryptSteps(x, from_step, to_step) ==
    Forward("enc_steps", x, sparx_encrypt_steps(subkeys, x, from_step, to_step),
            from_step, to_step)

DecryptSteps ==
    Inverse("enc_steps", "dec_steps", sparx_decrypt_steps(subkeys, c, fwd.from, fwd.to))

LinearLayer(x) == Forward("linear", x, sparx_linear_layer(x), 0, 0)

InvertLinearLayer == Inverse("linear", "inv_linear", sparx_invert_linear_layer(c))

EncryptRounds(x, from_round, to_round, fill) ==
    Forward("enc_rounds", x,
            sparx_encrypt_rounds(subkeys, x, from_round, to_round, fill),
            from_round, to_round)

\* sparx_decrypt_rounds(ctx, uint8_t c, uint8_t p, from_round, to_round): the
\* conversion, s, and the entry into the loops with b = 0, r = to_round-1
DecryptRoundsCall ==
    /\ keyed /\ pc = "idle"
    /\ fwd.op = "enc_rounds" /\ inv.op = "none"
    /\ pc' = "dec_rounds"
    /\ dr' = [state |-> to_uint16(c, SPARX64_STATE_LENGTH),
              from |-> fwd.from, to |-> fwd.to,
              s |-> fwd.from \div NUM_ROUNDS_PER_STEP,
              b |-> 0, r |-> fwd.to - 1, fill |-> -1, iters |-> 0]
    /\ UNCHANGED <<master, keyed, subkeys, p, c, q, fwd, inv, aVars, harnessVars, frontVars, sideVars>>

\* one pass of the loop body: r >= from_round-1 held
DecryptRoundsIter(fill) ==
    /\ pc = "dec_rounds"
    /\ dr.b < NUM_BRANCHES
    /\ SizeGE(dr.r, dr.from - 1)
    /\ dr.r > -MaxWrap
    /\ (dr.fill = -1 \/ dr.fill = fill)
    /\ LET row == dr.s * NUM_BRANCHES + dr.b
           outside == ~InTable(row, 2 * dr.r) \/ ~InTable(row, 2 * dr.r + 1)
       IN  dr' = [dr EXCEPT !.state = DecRound(subkeys, dr.state, row, dr.b, dr.r, fill),
                            !.r = dr.r - 1,
                            !.fill = IF outside THEN fill ELSE dr.fill,
                            !.iters = dr.iters + 1]
    /\ UNCHANGED <<master, keyed, subkeys, p, c, q, fwd, inv, pc, aVars, harnessVars, frontVars, sideVars>>

\* r >= from_round-1 failed: next branch
DecryptRoundsNextBranch ==
    /\ pc = "dec_rounds"
    /\ dr.b < NUM_BRANCHES
    /\ ~SizeGE(dr.r, dr.from - 1)
    /\ dr' = [dr EXCEPT !.b = dr.b + 1, !.r = dr.to - 1, !.iters = 0]
    /\ UNCHANGED <<master, keyed, subkeys, p, c, q, fwd, inv, pc, aVars, harnessVars, frontVars, sideVars>>

\* b < NUM_BRANCHES failed: convert the state back and return
DecryptRoundsReturn ==
    /\ pc = "dec_rounds"
    /\ dr.b >= NUM_BRANCHES
    /\ q' = to_uint8(dr.state, SPARX64_STATE_LENGTH)
    /\ inv' = [op |-> "dec_rounds", from |-> dr.from, to |-> dr.to]
    /\ pc' = "idle"
    /\ dr' = NoLocals
    /\ UNCHANGED <<master, keyed, subkeys, p, c, fwd, aVars, harnessVars, frontVars, sideVars>>

\* the num_rounds forms, in either order
EncryptRoundsNum(x, num_rounds, fill) ==
    Forward("enc_rounds_num", x, sparx_encrypt_rounds_num(subkeys, x, num_rounds, fill),
            1, num_rounds)

DecryptRoundsNum ==
    Inverse("enc_rounds_num", "dec_rounds_num",
            sparx_decrypt_rounds_num(subkeys, c, fwd.to))

InvertRoundsNum(x, num_rounds) ==
    Forward("dec_rounds_num", x, sparx_decrypt_rounds_num(subkeys, x, num_rounds),
            1, num_rounds)

ReencryptRoundsNum(fill) ==
    Inverse("dec_rounds_num", "enc_rounds_num",
            sparx_encrypt_rounds_num(subkeys, c, fwd.to, fill))

\* sparx_encrypt_steps_trail on x1 and x2: c takes the printed differences
EncryptStepsTrail(x1, x2, num_steps) ==
    Forward("trail", <<x1, x2>>, sparx_encrypt_steps_trail(subkeys, x1, x2, num_steps),
            1, num_steps)

\* a forward call can be made
CanCall == keyed /\ pc = "idle" /\ fwd.op = "none"

(***************************************************************************)
(* A and A_inverse on their own                                            *)
(***************************************************************************)
AIdle ==
    /\ a0 = <<0, 0>> /\ al = 0 /\ ar = 0 /\ astage = "none" /\ astores = <<>>

InitA ==
    /\ InitCipher /\ HarnessIdle /\ SideIdle
    /\ a0 \in WordSamples \X WordSamples
    /\ al = a0[1] /\ ar = a0[2]
    /\ astage = "in"
    /\ astores = <<>>

ApplyA ==
    /\ astage = "in"
    /\ al' = A(al, ar)[1]
    /\ ar' = A(al, ar)[2]
    /\ astores' = A_stores(al, ar)
    /\ astage' = "mid"
    /\ UNCHANGED <<a0, cipherVars, harnessVars, frontVars, sideVars>>

ApplyAInverse ==
    /\ astage = "mid"
    /\ al' = A_inverse(al, ar)[1]
    /\ ar' = A_inverse(al, ar)[2]
    /\ astores' = A_inverse_stores(al, ar)
    /\ astage' = "out"
    /\ UNCHANGED <<a0, cipherVars, harnessVars, frontVars, sideVars>>

(***************************************************************************)
(* The threaded experiments (src/unnamed/part_002): one sub-experiment     *)
(* under one random key.  The main thread starts the workers one by one,   *)
(* the workers run concurrently, the main thread joins them in order and   *)
(* prints the counter.                                                     *)
(***************************************************************************)
NUM_THREADS == 8

\* the numbers of worker threads the model is built with
ThreadCounts == {1, 2, NUM_THREADS}

\* largest num_texts_per_key
MaxTexts == 4

\* experiment_ctx_t of the boomerang program, as parsed from the command line
BoomerangCtx(num_texts) ==
    [num_texts_per_key |-> num_texts,
     num_steps |-> 1,
     alpha |-> to_uint8(W4(0, 0, \h8000, \h8000), SPARX64_STATE_LENGTH),
     delta |-> to_uint8(W4(0, 0, \h8000, \h8000), SPARX64_STATE_LENGTH)]

\* experiment_ctx_t of the truncated-differential program
TruncatedCtx(num_texts) ==
    [num_texts_per_key |-> num_texts,
     alpha |-> Arr(<<\h00, \h00, \h00, \h00, \h0a, \h60, \h42, \h05>>),
     delta_mask |-> <<0, 0, \hffff, \hffff>>,
     delta |-> <<0, 0, 0, 0>>,
     num_rounds_inverted |-> 2,
     num_steps |-> 5]

\* a random word, as the 8 bytes that memcpy takes from the uint64_t
Word(a, b, d, e) == to_uint8(W4(a, b, d, e), SPARX64_STATE_LENGTH)

\* what the generators deliver: the listed words, repeated
EntropyStreams ==
    {<<Word(\h7c58, \hab9e, \h7dab, \h4d20)>>,
     <<Word(\h0123, \h4567, \h89ab, \hcdef), Word(\haacd, \h7a4e, \hb9f0, \hd4bf)>>,
     <<Word(\h0123, \h4567, \h89ab, \hcdef), Word(\h7c58, \hab9e, \h7dab, \h4d20)>>,
     <<Word(\haacd, \h7a4e, \hb9f0, \hd4bf), Word(0, 0, 0, 0),
       Word(\h0123, \h4567, \h89ab, \hcdef)>>}

\* the random word drawn for trial i
RandomWord(stream, i) == stream[(i % Len(stream)) + 1]

\* a comparison of delta_q with ctx->delta
boomerang_trial_against_delta(sk, ctx, random_word) ==
    LET p1 == random_word
        p2 == xor_difference(p1, ctx.alpha, SPARX64_STATE_LENGTH)
        c1 == sparx_encrypt_steps(sk, p1, 1, ctx.num_steps)
        c2 == sparx_encrypt_steps(sk, p2, 1, ctx.num_steps)
        d1 == xor_difference(c1, ctx.delta, SPARX64_STATE_LENGTH)
        d2 == xor_difference(c2, ctx.delta, SPARX64_STATE_LENGTH)
        q1 == sparx_decrypt_steps_num(sk, d1, ctx.num_steps)
        q2 == sparx_decrypt_steps_num(sk, d2, ctx.num_steps)
        delta_q == xor_difference(q1, q2, SPARX64_STATE_LENGTH)
    IN  delta_q = ctx.delta

\* one pass of the loop body of the boomerang experiment_thread: TRUE iff
\* memcmp(delta_q, ctx->alpha) is 0
boomerang_trial(sk, ctx, random_word) ==
    LET p1 == random_word
        p2 == xor_difference(p1, ctx.alpha, SPARX64_STATE_LENGTH)
        c1 == sparx_encrypt_steps(sk, p1, 1, ctx.num_steps)
        c2 == sparx_encrypt_steps(sk, p2, 1, ctx.num_steps)
        d1 == xor_difference(c1, ctx.delta, SPARX64_STATE_LENGTH)
        d2 == xor_difference(c2, ctx.delta, SPARX64_STATE_LENGTH)
        q1 == sparx_decrypt_steps_num(sk, d1, ctx.num_steps)
        q2 == sparx_decrypt_steps_num(sk, d2, ctx.num_steps)
        delta_q == xor_difference(q1, q2, SPARX64_STATE_LENGTH)
    IN  delta_q = ctx.alpha

has_correct_difference(delta_c, desired_delta, delta_mask) ==
    AND64(delta_c, delta_mask) = desired_delta

\* one pass of the loop body of the truncated-differential experiment_thread:
\* TRUE iff has_correct_difference holds
truncated_trial(sk, ctx, random_word) ==
    LET internalstate1 == random_word
        internalstate2 == xor_difference(internalstate1, ctx.alpha, SPARX64_STATE_LENGTH)
        plaintext1 == sparx_decrypt_rounds_num(sk, internalstate1, ctx.num_rounds_inverted)
        plaintext2 == sparx_decrypt_rounds_num(sk, internalstate2, ctx.num_rounds_inverted)
        ciphertext1 == sparx_encrypt_steps_num(sk, plaintext1, ctx.num_steps)
        ciphertext2 == sparx_encrypt_steps_num(sk, plaintext2, ctx.num_steps)
        ciphertext1_uint16 == L2_inverse(to_uint16(ciphertext1, SPARX64_STATE_LENGTH))
        ciphertext2_uint16 == L2_inverse(to_uint16(ciphertext2, SPARX64_STATE_LENGTH))
        delta_c_uint64 == XOR64(to_uint64(ciphertext1_uint16), to_uint64(ciphertext2_uint16))
    IN  has_correct_difference(delta_c_uint64, ctx.delta, ctx.delta_mask)

\* The loop body of a worker is a pure function of the program, the key table,
\* ctx and the random word.  Its outcome is worked out once under the scheduled
\* key for every word the generators can deliver, and a worker's pass through
\* the loop body then takes the outcome for its word.
RECURSIVE TabulateTrials(_, _, _, _)
TabulateTrials(mode, sk, ctx, words) ==
    IF words = {} THEN <<>>
    ELSE LET w == CHOOSE y \in words : TRUE
         IN  (w :> (IF mode = "boomerang" THEN boomerang_trial(sk, ctx, w)
                    ELSE truncated_trial(sk, ctx, w)))
             @@ TabulateTrials(mode, sk, ctx, words \ {w})

StreamWords(stream) == {stream[i] : i \in DOMAIN stream}

\* std::atomic<size_t>: counter++ is fetch_add(1), counter += n is fetch_add(n)
atomic_store(value, arg) == arg

atomic_fetch_add(value, arg) == value + arg

chunk_from_inclusive(i, off) == IF i = 0 THEN 0 ELSE i * off + 1

\* the index range [from, to) of worker i
chunk_from(i, off) == i * off

chunk_to_no_remainder(i, off, n, num_texts) == (i + 1) * off

chunk_to(i, off, n, num_texts) == IF i + 1 = n THEN num_texts ELSE (i + 1) * off

\* experiment_thread run alone over [j, to): the number of passes through the
\* loop body whose match predicate held, added to count
RECURSIVE experiment_thread_count(_, _, _, _, _)
experiment_thread_count(stream, oc, j, to, count) ==
    IF ~(j < to) THEN count
    ELSE experiment_thread_count(stream, oc, j + 1, to,
                                 IF oc[RandomWord(stream, j)]
                                 THEN count + 1 ELSE count)

NotStarted == [st |-> "none", from |-> 0, to |-> 0, j |-> 0, num_collisions |-> 0]

\* largest ctx->num_keys
MaxKeys == 2

\* main: ctx as parse_args leaves it, run_experiments about to start
InitHarness ==
    /\ InitCipher /\ AIdle /\ SideIdle
    /\ hmode \in {"boomerang", "truncated"}
    /\ \E num_texts \in 0..MaxTexts :
          hctx = IF hmode = "boomerang" THEN BoomerangCtx(num_texts)
                 ELSE TruncatedCtx(num_texts)
    /\ nthreads \in ThreadCounts
    /\ entropy \in EntropyStreams
    /\ hpc = "main" /\ mi = 0 /\ offset = 0 /\ counter = 0
    /\ workers = [w \in 0..(nthreads - 1) |-> NotStarted]
    /\ outcome = <<>> /\ held = {} /\ printed = -1
    /\ num_keys \in 0..MaxKeys
    /\ ki = 0 /\ ctx_num_collisions = 0
    /\ reports = <<>> /\ average = <<>>

\* run_experiments: i < ctx->num_keys held.  run_experiment: the random key
\* is scheduled; experiment_threading then sets the counter to 0 and computes
\* offset
RunExperiment(key) ==
    /\ hpc = "main" /\ ki < num_keys
    /\ master' = to_uint16(key, 2 * SPARX64_NUM_KEY_WORDS)
    /\ keyed' = TRUE
    /\ subkeys' = sparx_key_schedule_bytes(key)
    /\ outcome' = TabulateTrials(hmode, subkeys', hctx, StreamWords(entropy))
    /\ counter' = 0
    /\ offset' = hctx.num_texts_per_key \div nthreads
    /\ mi' = 0
    /\ hpc' = "spawn"
    /\ UNCHANGED <<p, c, q, fwd, inv, pc, dr, aVars, frontVars, sideVars>>
    /\ UNCHANGED <<hmode, hctx, nthreads, entropy, workers, held, printed>>

\* threads.emplace_back(experiment_thread, ..., from, to) for i = mi; after
\* the last one the main thread goes on to the join loop
SpawnThread ==
    /\ hpc = "spawn" /\ mi < nthreads
    /\ LET from == chunk_from(mi, offset)
           to   == chunk_to(mi, offset, nthreads, hctx.num_texts_per_key)
       IN  workers' = [workers EXCEPT ![mi] =
                          [st |-> "run", from |-> from, to |-> to, j |-> from,
                           num_collisions |-> 0]]
    /\ mi' = IF mi + 1 = nthreads THEN 0 ELSE mi + 1
    /\ hpc' = IF mi + 1 = nthreads THEN "join" ELSE "spawn"
    /\ UNCHANGED <<cipherVars, aVars, frontVars, sideVars>>
    /\ UNCHANGED <<hmode, hctx, nthreads, entropy, outcome, offset, counter, held,
                   printed>>

\* boomerang worker w: one pass of the loop, with counter++ if the quartet
\* came back
BoomerangIteration(w) ==
    /\ hmode = "boomerang"
    /\ workers[w].st = "run" /\ workers[w].j < workers[w].to
    /\ LET j == workers[w].j
           hit == outcome[RandomWord(entropy, j)]
       IN  /\ counter' = IF hit THEN atomic_fetch_add(counter, 1) ELSE counter
           /\ held' = IF hit THEN held \cup {j} ELSE held
           /\ workers' = [workers EXCEPT ![w].j = j + 1]
    /\ UNCHANGED <<cipherVars, aVars, frontVars, sideVars>>
    /\ UNCHANGED <<hmode, hctx, nthreads, entropy, outcome, hpc, mi, offset, printed>>

\* boomerang worker w: i < to failed, the thread function returns
BoomerangThreadExit(w) ==
    /\ hmode = "boomerang"
    /\ workers[w].st = "run" /\ ~(workers[w].j < workers[w].to)
    /\ workers' = [workers EXCEPT ![w].st = "done"]
    /\ UNCHANGED <<cipherVars, aVars, frontVars, sideVars>>
    /\ UNCHANGED <<hmode, hctx, nthreads, entropy, outcome, hpc, mi, offset, counter,
                   held, printed>>

\* truncated-differential worker w: one pass of the loop, with
\* num_collisions++ if the difference is the desired one
TruncatedIteration(w) ==
    /\ hmode = "truncated"
    /\ workers[w].st = "run" /\ workers[w].j < workers[w].to
    /\ LET j == workers[w].j
           hit == outcome[RandomWord(entropy, j)]
       IN  /\ held' = IF hit THEN held \cup {j} ELSE held
           /\ workers' = [workers EXCEPT
                             ![w].j = j + 1,
                             ![w].num_collisions =
                                 IF hit THEN @ + 1 ELSE @]
    /\ UNCHANGED <<cipherVars, aVars, frontVars, sideVars>>
    /\ UNCHANGED <<hmode, hctx, nthreads, entropy, outcome, hpc, mi, offset, counter,
                   printed>>

\* truncated-differential worker w: j < to failed; counter += num_collisions
\* and the thread function returns
TruncatedThreadExit(w) ==
    /\ hmode = "truncated"
    /\ workers[w].st = "run" /\ ~(workers[w].j < workers[w].to)
    /\ counter' = atomic_fetch_add(counter, workers[w].num_collisions)
    /\ workers' = [workers EXCEPT ![w].st = "done"]
    /\ UNCHANGED <<cipherVars, aVars, frontVars, sideVars>>
    /\ UNCHANGED <<hmode, hctx, nthreads, entropy, outcome, hpc, mi, offset, held,
                   printed>>

join_without_waiting(worker) == TRUE

\* std::thread::join() returns once the thread function has returned
join_returns(worker) == worker.st = "done"

\* thread.join() on worker mi returns once that worker has returned
JoinThread ==
    /\ hpc = "join" /\ mi < nthreads
    /\ join_returns(workers[mi])
    /\ mi' = mi + 1
    /\ UNCHANGED <<cipherVars, aVars, frontVars, sideVars>>
    /\ UNCHANGED <<hmode, hctx, nthreads, entropy, outcome, hpc, offset, counter,
                   workers, held, printed>>

\* what experiment_threading does with counter.load() after the printf: the
\* truncated-differential program adds it to ctx->num_collisions, the
\* boomerang program has no running total
accumulate(mode, total, count) == IF mode = "truncated" THEN total + count ELSE total

\* all workers joined: printf of counter.load(), and the accumulation
Report ==
    /\ hpc = "join" /\ mi = nthreads
    /\ printed' = counter
    /\ reports' = Append(reports, counter)
    /\ ctx_num_collisions' = accumulate(hmode, ctx_num_collisions, counter)
    /\ hpc' = "done"
    /\ UNCHANGED <<cipherVars, aVars, sideVars, num_keys, ki, average>>
    /\ UNCHANGED <<hmode, hctx, nthreads, entropy, outcome, mi, offset, counter,
                   workers, held>>

\* experiment_threading and run_experiment return, the threads and the counter
\* go out of scope, and run_experiments does ++i
NextKey ==
    /\ hpc = "done"
    /\ ki' = ki + 1
    /\ hpc' = "main"
    /\ mi' = 0
    /\ workers' = [w \in DOMAIN workers |-> NotStarted]
    /\ held' = {}
    /\ printed' = -1
    /\ UNCHANGED <<cipherVars, aVars, sideVars, num_keys, ctx_num_collisions, reports, average>>
    /\ UNCHANGED <<hmode, hctx, nthreads, entropy, outcome, offset, counter>>

\* the terminal output of run_experiments: the truncated-differential program
\* prints (double)ctx->num_collisions / ctx->num_keys, held here as numerator
\* and denominator; the boomerang program prints nothing
terminal_output(mode, total, keys) == IF mode = "truncated" THEN <<total, keys>> ELSE <<>>

\* run_experiments: i < ctx->num_keys failed
Finish ==
    /\ hpc = "main" /\ ~(ki < num_keys)
    /\ average' = terminal_output(hmode, ctx_num_collisions, num_keys)
    /\ hpc' = "exit"
    /\ UNCHANGED <<cipherVars, aVars, sideVars, num_keys, ki, ctx_num_collisions, reports>>
    /\ UNCHANGED <<hmode, hctx, nthreads, entropy, outcome, mi, offset, counter,
                   workers, held, printed>>

(***************************************************************************)
(* xorshift1024* (include/utils/xorshift1024.h).  A uint64_t is held as its *)
(* 8 bytes in memory, lowest byte first, which is also what memcpy from the *)
(* word into a byte buffer gives.                                           *)
(***************************************************************************)
\* bit i of a uint64_t
Bit64(v, i) == (v[i \div 8] \div Pow2(i % 8)) % 2

\* byte k of the uint64_t whose bit i is f[i]
RECURSIVE ByteOfBits(_, _, _)
ByteOfBits(f, k, i) ==
    IF i = 8 THEN 0 ELSE f[8 * k + i] * Pow2(i) + ByteOfBits(f, k, i + 1)

FromBits64(f) == [k \in 0..7 |-> ByteOfBits(f, k, 0)]

\* v << n and v >> n on uint64_t
SHL64(v, n) == FromBits64([i \in 0..63 |-> IF i >= n THEN Bit64(v, i - n) ELSE 0])
SHR64(v, n) == FromBits64([i \in 0..63 |-> IF i + n < 64 THEN Bit64(v, i + n) ELSE 0])

\* a ^ b on uint64_t
XOR64LE(a, b) == [k \in 0..7 |-> XOR8(a[k], b[k])]

\* a * b modulo 2^64: column k of the byte-wise product, and the carry chain
RECURSIVE MulColumn(_, _, _, _)
MulColumn(a, b, k, i) ==
    IF i > k THEN 0 ELSE a[i] * b[k - i] + MulColumn(a, b, k, i + 1)

RECURSIVE MulDigits(_, _, _, _)
MulDigits(a, b, k, t) ==
    IF k = 8 THEN <<>>
    ELSE <<t % 256>>
         \o MulDigits(a, b, k + 1,
                      IF k = 7 THEN 0 ELSE MulColumn(a, b, k + 1, 0) + (t \div 256))

MUL64(a, b) == Arr(MulDigits(a, b, 0, MulColumn(a, b, 0, 0)))

\* the uint64_t with the given bytes, highest byte first as in a hex literal
U64(b7, b6, b5, b4, b3, b2, b1, b0) == Arr(<<b0, b1, b2, b3, b4, b5, b6, b7>>)

\* UINT64_C(1181783497276652981) = 0x106689D45497FDB5
XORSHIFT_MULTIPLIER == U64(\h10, \h66, \h89, \hd4, \h54, \h97, \hfd, \hb5)

\* s1 ^= s1 << 31
xorshift_a(s1) == XOR64LE(s1, SHL64(s1, 31))

\* s1 ^ s0 ^ (s1 >> 11) ^ (s0 >> 30)
xorshift_bc(s1, s0) == XOR64LE(XOR64LE(s1, s0), XOR64LE(SHR64(s1, 11), SHR64(s0, 30)))

\* the state s[p1] takes, p1 being the new position
xorshift_word(s, pos, p1) == xorshift_bc(xorshift_a(s[p1]), s[pos])

\* the context after the call, and the value returned
xorshift_result(s, p1, word) ==
    <<[s |-> [s EXCEPT ![p1] = word], p |-> p1], MUL64(word, XORSHIFT_MULTIPLIER)>>

\* the word stored at the old position, the position advanced afterwards
xorshift1024_step_store_first(s, pos) ==
    <<[s |-> [s EXCEPT ![pos] = xorshift_word(s, pos, (pos + 1) % 16)],
      p |-> (pos + 1) % 16],
     MUL64(xorshift_word(s, pos, (pos + 1) % 16), XORSHIFT_MULTIPLIER)>>

\* xorshift1024_next on state s at position pos
xorshift1024_step(s, pos) ==
    xorshift_result(s, (pos + 1) % 16, xorshift_word(s, pos, (pos + 1) % 16))

\* a generator whose position is one counter shared by all contexts
xorshift1024_next_shared_p(ctx) ==
    xorshift1024_step(ctx.s, (Len(runs[1].words) + Len(runs[2].words)) % 16)

\* xorshift1024_next(ctx): <<ctx after the call, the value returned>>
xorshift1024_next(ctx) == xorshift1024_step(ctx.s, ctx.p)

\* largest number of trials of a run
MaxCalls == 3

\* generator states a test fixes instead of reading /dev/urandom
SeedWord(i, a, b) ==
    U64((a + i) % 256, \h23, (\h45 + 3 * i) % 256, b, \h89, (\hab + 7 * i) % 256,
        \hcd, (\hef - i) % 256)

Seeds ==
    {[s |-> [i \in 0..15 |-> SeedWord(i, 1, \h67)], p |-> 0],
     [s |-> [i \in 0..15 |-> SeedWord(i, 1, \h67)], p |-> 14],
     [s |-> [i \in 0..15 |-> SeedWord(15 - i, \hf0, \h80)], p |-> 15]}

\* two runs of the boomerang experiment_thread over [from, to), each with its
\* own generator context set to the same fixed state
InitPrng ==
    /\ AIdle
    /\ \E key \in KeyBytes :
          /\ master = to_uint16(key, 2 * SPARX64_NUM_KEY_WORDS)
          /\ keyed = TRUE
          /\ subkeys = sparx_key_schedule_bytes(key)
    /\ p = <<>> /\ c = <<>> /\ q = <<>>
    /\ fwd = NoCall /\ inv = NoCall /\ pc = "idle" /\ dr = NoLocals
    /\ hmode = "boomerang" /\ hctx = BoomerangCtx(MaxCalls)
    /\ nthreads = 0 /\ entropy = <<>> /\ hpc = "none" /\ mi = 0 /\ offset = 0
    /\ counter = 0 /\ workers = <<>> /\ outcome = <<>> /\ held = {} /\ printed = -1
    /\ num_keys = 0 /\ ki = 0 /\ ctx_num_collisions = 0
    /\ reports = <<>> /\ average = <<>>
    /\ \E seed \in Seeds, from \in {0, 2}, n \in 0..MaxCalls :
          runs = [r \in 1..2 |->
                     [st |-> "run", from |-> from, to |-> from + n, i |-> from,
                      xorshift_ctx |-> seed, words |-> <<>>, pairs |-> <<>>,
                      counter |-> 0]]
    /\ rd = <<>> /\ it = <<>> /\ accesses = {} /\ conv = <<>> /\ chk = <<>>

\* one run after a pass of the loop with the generator's result nx: the
\* random word, the pair (p, p') built from it, and the count
AfterPass(run, nx) ==
    [run EXCEPT
        !.i = @ + 1,
        !.xorshift_ctx = nx[1],
        !.words = Append(@, nx[2]),
        !.pairs = Append(@, <<nx[2], xor_difference(nx[2], hctx.alpha,
                                                     SPARX64_STATE_LENGTH)>>),
        !.counter = IF boomerang_trial(subkeys, hctx, nx[2]) THEN @ + 1 ELSE @]

\* run r: one pass of the loop of experiment_thread
SeededPass(r) ==
    /\ runs[r].st = "run" /\ runs[r].i < runs[r].to
    /\ \E nx \in {xorshift1024_next(runs[r].xorshift_ctx)} :
          runs' = [runs EXCEPT ![r] = AfterPass(@, nx)]
    /\ UNCHANGED <<cipherVars, aVars, harnessVars, frontVars, rd, it, accesses,
                 conv, chk>>

\* run r: i < to failed
SeededReturn(r) ==
    /\ runs[r].st = "run" /\ ~(runs[r].i < runs[r].to)
    /\ runs' = [runs EXCEPT ![r].st = "done"]
    /\ UNCHANGED <<cipherVars, aVars, harnessVars, frontVars, rd, it, accesses,
                 conv, chk>>

(***************************************************************************)
(* get_random_from_dev_urandom (include/utils/xorshift1024.h): the loop     *)
(* around read().  rd holds the locals, the caller's buffer (-1 marks a     *)
(* byte not yet written) and the bytes read() has delivered so far.         *)
(***************************************************************************)
\* largest num_bytes
MaxBytes == 4

\* bytes the device delivers
ByteSamples == {\h00, \ha5}

\* after open() and len = 0; open() may have failed and returned -1
InitRead ==
    /\ InitCipher /\ AIdle /\ HarnessIdle
    /\ runs = <<>> /\ it = <<>> /\ accesses = {} /\ conv = <<>> /\ chk = <<>>
    /\ \E n \in 0..MaxBytes, fd \in {"open", "bad"} :
          rd = [pc |-> "loop", fd |-> fd, num_bytes |-> n, len |-> 0,
                data |-> [k \in 0..(n - 1) |-> -1], delivered |-> <<>>,
                reads |-> 0, failed |-> FALSE, status |-> "none"]

\* read(fd, data + len, count) delivered bytes: they are stored from offset len
store_at_start(data, len, bytes) ==
    [k \in DOMAIN data |-> IF k < Len(bytes) THEN bytes[k + 1] ELSE data[k]]

store_at(data, len, bytes) ==
    [k \in DOMAIN data |->
        IF k >= len /\ k < len + Len(bytes) THEN bytes[k - len + 1] ELSE data[k]]

\* num_gathered_bytes < 0: puts, close, exit(EXIT_FAILURE)
read_failed_retry(r) == r

read_failed(r) == [r EXCEPT !.pc = "exited", !.status = "EXIT_FAILURE"]

\* while (len < num_bytes): read() returns Len(bytes) > 0, at most the
\* num_bytes - len asked for; len += num_gathered_bytes
ReadStores(bytes) ==
    /\ rd.pc = "loop" /\ rd.len < rd.num_bytes /\ rd.fd = "open"
    /\ Len(bytes) <= rd.num_bytes - rd.len
    /\ rd' = [rd EXCEPT !.data = store_at(@, rd.len, bytes),
                        !.len = @ + Len(bytes),
                        !.delivered = @ \o bytes,
                        !.reads = @ + 1]
    /\ UNCHANGED <<cipherVars, aVars, harnessVars, frontVars, runs, it, accesses,
                 conv, chk>>

\* while (len < num_bytes): read() returns -1
ReadFails ==
    /\ rd.pc = "loop" /\ rd.len < rd.num_bytes
    /\ rd' = [read_failed(rd) EXCEPT !.failed = TRUE, !.reads = @ + 1]
    /\ UNCHANGED <<cipherVars, aVars, harnessVars, frontVars, runs, it, accesses,
                 conv, chk>>

\* len < num_bytes failed: close and return
GetRandomReturns ==
    /\ rd.pc = "loop" /\ ~(rd.len < rd.num_bytes)
    /\ rd' = [rd EXCEPT !.pc = "returned"]
    /\ UNCHANGED <<cipherVars, aVars, harnessVars, frontVars, runs, it, accesses,
                 conv, chk>>

(***************************************************************************)
(* StateIterator (src/unnamed/part_004).  Masks of the model have at most   *)
(* three bytes, so that a uint64_t value is held as a number.               *)
(***************************************************************************)
\* (x & (1 << j)) != 0
BitSet(x, j) == (x \div Pow2(j)) % 2 = 1

\* the j loop of find_hamming_weight and find_shift_indices over one byte
RECURSIVE WeightOfByte(_, _)
WeightOfByte(byte, j) ==
    IF j = 8 THEN 0
    ELSE (IF BitSet(byte, j) THEN 1 ELSE 0) + WeightOfByte(byte, j + 1)

RECURSIVE HammingLoop(_, _, _)
HammingLoop(states_mask, num_bytes, i) ==
    IF ~(i < num_bytes) THEN 0
    ELSE WeightOfByte(states_mask[i], 0) + HammingLoop(states_mask, num_bytes, i + 1)

find_hamming_weight(states_mask, num_bytes) == HammingLoop(states_mask, num_bytes, 0)

\* the positions pushed for byte number i, which has weight 2^(8 * byte_weight)
RECURSIVE ShiftsOfByte(_, _, _)
ShiftsOfByte(byte, byte_weight, j) ==
    IF j = 8 THEN <<>>
    ELSE (IF BitSet(byte, j) THEN <<(byte_weight * 8 + j) % 256>> ELSE <<>>)
         \o ShiftsOfByte(byte, byte_weight, j + 1)

\* a scan from the first byte to the last
RECURSIVE find_shift_indices_forward(_, _, _)
find_shift_indices_forward(states_mask, num_bytes, i) ==
    IF i < 0 THEN <<>>
    ELSE ShiftsOfByte(states_mask[num_bytes - 1 - i], num_bytes - 1 - i, 0)
         \o find_shift_indices_forward(states_mask, num_bytes, i - 1)

\* for (int i = num_bytes-1; i >= 0; --i): from the last byte to the first
RECURSIVE find_shift_indices(_, _, _)
find_shift_indices(states_mask, num_bytes, i) ==
    IF i < 0 THEN <<>>
    ELSE ShiftsOfByte(states_mask[i], num_bytes - 1 - i, 0)
         \o find_shift_indices(states_mask, num_bytes, i - 1)

\* next_value |= 1L << shift
OrBit(value, shift) == IF BitSet(value, shift) THEN value ELSE value + Pow2(shift)

\* for (i = 0; i < num_active_bits; ++i) of internal_next_as_uint64
RECURSIVE NextValueLoop(_, _, _, _)
NextValueLoop(iter, next_value, i, mask) ==
    IF ~(i < iter.num_active_bits) THEN next_value
    ELSE NextValueLoop(iter,
                       IF (iter.current_state_index \div mask) % 2 = 1
                       THEN OrBit(next_value, iter.shift_indices[i + 1])
                       ELSE next_value,
                       i + 1, mask * 2)

internal_next_as_uint64(iter) == NextValueLoop(iter, 0, 0, 1)

\* to_uint8(target, uint64_t src, num_bytes): the last byte is the lowest
to_uint8_from_uint64(src, num_bytes) ==
    [i \in 0..(num_bytes - 1) |-> (src \div Pow2(8 * (num_bytes - 1 - i))) % 256]

\* bool has_next()
has_next(iter) == iter.num_states > iter.current_state_index

\* masks the iterators of the model are built for
MaskBytes == {\h00, \h01, \h41, \h80, \h81, \hc3}

Masks ==
    {Arr(<<a, b>>) : a \in MaskBytes, b \in MaskBytes}
    \cup {Arr(<<\h0f>>), Arr(<<\h80, \h00, \h18>>)}

\* StateIterator(states_mask, num_bytes): the object after construction, and
\* no value returned yet
InitIterator ==
    /\ InitCipher /\ AIdle /\ HarnessIdle
    /\ runs = <<>> /\ rd = <<>> /\ accesses = {} /\ conv = <<>> /\ chk = <<>>
    /\ \E mask \in Masks :
          it = [states_mask |-> mask,
                num_state_bytes |-> Cardinality(DOMAIN mask),
                num_active_bits |-> find_hamming_weight(mask, Cardinality(DOMAIN mask)),
                num_states |->
                    Pow2(find_hamming_weight(mask, Cardinality(DOMAIN mask))),
                shift_indices |->
                    find_shift_indices(mask, Cardinality(DOMAIN mask),
                                       Cardinality(DOMAIN mask) - 1),
                current_state_index |-> 0,
                returned |-> <<>>]

\* next(state), called while has_next() is true
IteratorNext ==
    /\ it # <<>> /\ has_next(it)
    /\ it' = [it EXCEPT
                 !.current_state_index = @ + 1,
                 !.returned = Append(@, to_uint8_from_uint64(
                                           internal_next_as_uint64(it),
                                           it.num_state_bytes))]
    /\ UNCHANGED <<cipherVars, aVars, harnessVars, frontVars, runs, rd, accesses,
                 conv, chk>>

\* reset(); the values returned are counted anew
IteratorReset ==
    /\ it # <<>> /\ it.current_state_index > 0
    /\ it' = [it EXCEPT !.current_state_index = 0, !.returned = <<>>]
    /\ UNCHANGED <<cipherVars, aVars, harnessVars, frontVars, runs, rd, accesses,
                 conv, chk>>

(***************************************************************************)
(* The workers of one sub-experiment, each with the locals of its own       *)
(* experiment_thread call, and what every one of them reads and writes.     *)
(* An object is <<name, owner>>: owner 0 for what all threads can reach     *)
(* (the counter, sparx_ctx, ctx), the worker's number for its locals.       *)
(***************************************************************************)
Own(name, w) == <<name, w>>

Shared(name) == <<name, 0>>

Touch(w, reads, writes) ==
    {<<w, o, "r">> : o \in reads} \cup {<<w, o, "w">> : o \in writes}

\* one generator context with static storage, used by every worker
prng_static(w) == 1

\* xorshift_prng_ctx_t xorshift_ctx; is a local of experiment_thread: worker
\* w uses the context of its own call
prng_of(w) == w

\* the match predicate of the loop body of either program
trial(mode, sk, ctx, random_word) ==
    IF mode = "boomerang" THEN boomerang_trial(sk, ctx, random_word)
    ELSE truncated_trial(sk, ctx, random_word)

\* what /dev/urandom may deliver for the 16 words of a context
SeedStates == {seed.s : seed \in Seeds}

\* experiment_threading has scheduled the key, set the counter to 0 and
\* started two workers, which are about to run; the main thread waits in join
InitThreads ==
    /\ AIdle
    /\ \E key \in KeyBytes :
          /\ master = to_uint16(key, 2 * SPARX64_NUM_KEY_WORDS)
          /\ keyed = TRUE
          /\ subkeys = sparx_key_schedule_bytes(key)
    /\ p = <<>> /\ c = <<>> /\ q = <<>>
    /\ fwd = NoCall /\ inv = NoCall /\ pc = "idle" /\ dr = NoLocals
    /\ hmode \in {"boomerang", "truncated"}
    /\ \E num_texts \in 0..MaxCalls :
          /\ hctx = IF hmode = "boomerang" THEN BoomerangCtx(num_texts)
                    ELSE TruncatedCtx(num_texts)
          /\ offset = num_texts \div 2
          /\ runs = [w \in 1..2 |->
                        [st |-> "start",
                         from |-> chunk_from(w - 1, num_texts \div 2),
                         to |-> chunk_to(w - 1, num_texts \div 2, 2, num_texts),
                         i |-> chunk_from(w - 1, num_texts \div 2),
                         xorshift_ctx |-> <<>>, seedings |-> 0,
                         words |-> <<>>, pairs |-> <<>>, counter |-> 0]]
    /\ nthreads = 2 /\ entropy = <<>> /\ hpc = "join" /\ mi = 0
    /\ counter = 0 /\ workers = <<>> /\ outcome = <<>> /\ held = {} /\ printed = -1
    /\ num_keys = 1 /\ ki = 0 /\ ctx_num_collisions = 0
    /\ reports = <<>> /\ average = <<>>
    /\ rd = <<>> /\ it = <<>> /\ accesses = {} /\ conv = <<>> /\ chk = <<>>

\* worker w up to the loop: the truncated-differential program clears its
\* buffers; xorshift1024_init fills s from /dev/urandom and sets p to 0
ThreadSeeds(w, seed) ==
    /\ runs[w].st = "start"
    /\ runs' = [runs EXCEPT ![prng_of(w)].xorshift_ctx = [s |-> seed, p |-> 0],
                            ![w].seedings = @ + 1,
                            ![w].st = "run"]
    /\ accesses' = accesses \cup
          Touch(w, {},
                {Own("xorshift_ctx", prng_of(w))}
                \cup (IF hmode = "truncated"
                      THEN {Own("buffers", w), Own("num_collisions", w)} ELSE {}))
    /\ UNCHANGED <<cipherVars, aVars, frontVars, rd, it, conv, chk>>
    /\ UNCHANGED <<hmode, hctx, nthreads, entropy, hpc, mi, offset, counter, workers,
                   outcome, held, printed>>

\* worker w: one pass of the loop, with o its generator context, nx what
\* xorshift1024_next returns and hit the match predicate.  The boomerang
\* program does counter++ on a match, the truncated-differential program
\* num_collisions++
ThreadPass(w) ==
    /\ runs[w].st = "run" /\ runs[w].i < runs[w].to
    /\ \E o \in {prng_of(w)} :
       \E nx \in {xorshift1024_next(runs[o].xorshift_ctx)} :
       \E hit \in {trial(hmode, subkeys, hctx, nx[2])} :
           /\ runs' = [runs EXCEPT
                          ![o].xorshift_ctx = nx[1],
                          ![w].i = @ + 1,
                          ![w].words = Append(@, nx[2]),
                          ![w].pairs = Append(@, <<nx[2],
                                          xor_difference(nx[2], hctx.alpha,
                                                         SPARX64_STATE_LENGTH)>>),
                          ![w].counter = IF hmode = "truncated" /\ hit
                                         THEN @ + 1 ELSE @]
           /\ counter' = IF hmode = "boomerang" /\ hit
                         THEN atomic_fetch_add(counter, 1) ELSE counter
           /\ accesses' = accesses \cup
                 Touch(w,
                       {Own("xorshift_ctx", o), Own("buffers", w),
                        Shared("sparx_ctx"), Shared("ctx")}
                       \cup (IF hit
                             THEN {IF hmode = "boomerang" THEN Shared("counter")
                                   ELSE Own("num_collisions", w)}
                             ELSE {}),
                       {Own("xorshift_ctx", o), Own("buffers", w)}
                       \cup (IF hit
                             THEN {IF hmode = "boomerang" THEN Shared("counter")
                                   ELSE Own("num_collisions", w)}
                             ELSE {}))
    /\ UNCHANGED <<cipherVars, aVars, frontVars, rd, it, conv, chk>>
    /\ UNCHANGED <<hmode, hctx, nthreads, entropy, hpc, mi, offset, workers,
                   outcome, held, printed>>

\* worker w: the loop condition failed; the truncated-differential program
\* does counter += num_collisions; the thread function returns
ThreadReturn(w) ==
    /\ runs[w].st = "run" /\ ~(runs[w].i < runs[w].to)
    /\ runs' = [runs EXCEPT ![w].st = "done"]
    /\ counter' = IF hmode = "truncated"
                  THEN atomic_fetch_add(counter, runs[w].counter) ELSE counter
    /\ accesses' = accesses \cup
          (IF hmode = "truncated"
           THEN Touch(w, {Own("num_collisions", w), Shared("counter")},
                      {Shared("counter")})
           ELSE {})
    /\ UNCHANGED <<cipherVars, aVars, frontVars, rd, it, conv, chk>>
    /\ UNCHANGED <<hmode, hctx, nthreads, entropy, hpc, mi, offset, workers,
                   outcome, held, printed>>

(***************************************************************************)
(* get_random(ctx, data, num_bytes) (include/utils/xorshift1024.h).  rd     *)
(* holds the locals, the generator context, the caller's buffer (-1 marks   *)
(* a byte not yet written) and the words drawn so far.                      *)
(***************************************************************************)
\* largest num_bytes of a get_random call
MaxRandomBytes == 17

\* sizeof(uint64_t)
wordsize == 8

\* memcpy(data + off, &word, n): the n lowest bytes of the word in memory
memcpy_word(data, off, word, n) ==
    [k \in DOMAIN data |-> IF k >= off /\ k < off + n THEN word[k - off] ELSE data[k]]

\* after num_words = num_bytes / wordsize, with i = 0
InitGetRandom ==
    /\ InitCipher /\ AIdle /\ HarnessIdle
    /\ runs = <<>> /\ it = <<>> /\ accesses = {} /\ conv = <<>> /\ chk = <<>>
    /\ \E n \in 0..MaxRandomBytes, seed \in Seeds :
          rd = [pc |-> "words", num_bytes |-> n, num_words |-> n \div wordsize,
                i |-> 0, data |-> [k \in 0..(n - 1) |-> -1],
                xorshift_ctx |-> seed, drawn |-> <<>>]

\* for (i = 0; i < num_words; ++i): one word drawn and copied to data + i * 8
GetRandomWord ==
    /\ rd.pc = "words" /\ rd.i < rd.num_words
    /\ \E nx \in {xorshift1024_next(rd.xorshift_ctx)} :
          rd' = [rd EXCEPT !.xorshift_ctx = nx[1],
                           !.drawn = Append(@, nx[2]),
                           !.data = memcpy_word(@, rd.i * wordsize, nx[2], wordsize),
                           !.i = @ + 1]
    /\ UNCHANGED <<cipherVars, aVars, harnessVars, frontVars, runs, it, accesses,
                 conv, chk>>

\* i < num_words failed: with num_bytes_remaining > 0 one more word is drawn
\* and memcpy(data, &word, num_bytes_remaining) copies to the start of data;
\* the function returns
GetRandomRest ==
    /\ rd.pc = "words" /\ ~(rd.i < rd.num_words)
    /\ LET num_bytes_remaining == rd.num_bytes - rd.num_words * wordsize
       IN  IF num_bytes_remaining > 0
           THEN \E nx \in {xorshift1024_next(rd.xorshift_ctx)} :
                   rd' = [rd EXCEPT !.xorshift_ctx = nx[1],
                                    !.drawn = Append(@, nx[2]),
                                    !.data = memcpy_word(@, 0, nx[2],
                                                         num_bytes_remaining),
                                    !.pc = "returned"]
           ELSE rd' = [rd EXCEPT !.pc = "returned"]
    /\ UNCHANGED <<cipherVars, aVars, harnessVars, frontVars, runs, it, accesses,
                 conv, chk>>

(***************************************************************************)
(* The conversions of utils/convert.cpp on one buffer.  conv holds the      *)
(* buffer the caller started from (orig, of type okind), the buffer now     *)
(* (val, of type kind) and the conversions applied so far (hist).  A        *)
(* uint64_t is held as its four base-2^16 digits, most significant first.   *)
(***************************************************************************)
MaxConversions == 2

\* a mistaken to_uint64(const uint8_t src[8]) taking src[7] as the highest byte
to_uint64_from_uint8_reversed(src) ==
    [k \in 1..4 |-> ((src[7 - 2 * (k - 1)] % 256) * 256) + (src[6 - 2 * (k - 1)] % 256)]

\* uint64_t to_uint64(const uint8_t src[8]): src[0] << 56 | ... | src[7]
to_uint64_from_uint8(src) ==
    [k \in 1..4 |-> ((src[2 * (k - 1)] % 256) * 256) + (src[2 * (k - 1) + 1] % 256)]

\* (src >> shift) & 0xFF for shift in {0, 8, ..., 56}
ByteAtShift(src, shift) ==
    (src[4 - (shift \div 16)] \div (IF shift % 16 = 8 THEN 256 ELSE 1)) % 256

\* void to_uint8(uint8_t target[8], const uint64_t src)
to_uint8_of_uint64(src) ==
    [i \in 0..7 |-> ByteAtShift(src, 56 - 8 * i)]

\* void to_uint16(uint16_t target[4], const uint64_t src)
to_uint16_of_uint64(src) ==
    [i \in 0..3 |-> src[i + 1] % Pow16]

\* the documented example { 0x00, 0x01, ..., 0x07 }
DocBytes == [i \in 0..7 |-> i]

ConvByteValues == {\h01, \h80, \hff}

\* byte arrays with up to two non-zero bytes, anywhere
ConvBytes ==
    {DocBytes, [i \in 0..7 |-> \hff]} \cup
    {[i \in 0..7 |-> IF i = k THEN v ELSE IF i = j THEN u ELSE 0] :
        k \in 0..7, j \in 0..7, v \in ConvByteValues, u \in {0, \ha5}}

ConvWordValues == {\h0001, \h0100, \h8000, \h00ff, \hff00, \hffff, \h0203}

ConvWords ==
    {[i \in 0..3 |-> i * \h0202 + \h0001], [i \in 0..3 |-> \hffff]} \cup
    {[i \in 0..3 |-> IF i = k THEN v ELSE 0] : k \in 0..3, v \in ConvWordValues}

InitConvert ==
    /\ InitCipher /\ AIdle /\ HarnessIdle
    /\ runs = <<>> /\ rd = <<>> /\ it = <<>> /\ accesses = {} /\ chk = <<>>
    /\ \/ \E b \in ConvBytes :
             conv = [okind |-> "uint8", orig |-> b, kind |-> "uint8", val |-> b,
                     hist |-> <<>>]
       \/ \E w \in ConvWords :
             conv = [okind |-> "uint16", orig |-> w, kind |-> "uint16", val |-> w,
                     hist |-> <<>>]

Converted(from, to, res) ==
    /\ conv.kind = from /\ Len(conv.hist) < MaxConversions
    /\ conv' = [conv EXCEPT !.kind = to, !.val = res, !.hist = Append(@, <<from, to>>)]
    /\ UNCHANGED <<cipherVars, aVars, harnessVars, frontVars, runs, rd, it, accesses, chk>>

\* to_uint16(target, src, 8) on a byte array
BytesToWords == Converted("uint8", "uint16", to_uint16(conv.val, SPARX64_STATE_LENGTH))

\* to_uint8(target, src, 8) on a word array
WordsToBytes == Converted("uint16", "uint8", to_uint8(conv.val, SPARX64_STATE_LENGTH))

\* to_uint64(src) on a byte array
BytesToUint64 == Converted("uint8", "uint64", to_uint64_from_uint8(conv.val))

\* to_uint64(src) on a word array
WordsToUint64 == Converted("uint16", "uint64", to_uint64(conv.val))

\* to_uint8(target, src) on a uint64_t
Uint64ToBytes == Converted("uint64", "uint8", to_uint8_of_uint64(conv.val))

\* to_uint16(target, src) on a uint64_t
Uint64ToWords == Converted("uint64", "uint16", to_uint16_of_uint64(conv.val))

NextConvert ==
    \/ BytesToWords
    \/ WordsToBytes
    \/ BytesToUint64
    \/ WordsToUint64
    \/ Uint64ToBytes
    \/ Uint64ToWords

(***************************************************************************)
(* check_difference of the multi-step backward experiment (part_001).  A    *)
(* uint64_t is held as <<high 32 bits, low 32 bits>>.  The function casts   *)
(* each half of *c1 and *c2 to a uint32_t* and dereferences it: what it     *)
(* compares are the words of the process memory at those addresses.  mem    *)
(* is that memory, a function from the mapped addresses to their words: a   *)
(* read outside its domain ends the process.                                *)
(***************************************************************************)
CheckHalves == 0..2
CheckDeltas == {0, 1, 3}
MemWords == 0..1

Memories == UNION {[D -> MemWords] : D \in SUBSET CheckHalves}

\* static bool check_difference(c1, c2, delta_l, delta_r): the addresses
\* read, whether a read faulted, and the value returned otherwise; && reads
\* *c1_h and *c2_h only when the first comparison was true
check_difference(mem, c1, c2, delta_l, delta_r) ==
    LET c1_l == c1[2]
        c1_h == c1[1]
        c2_l == c2[2]
        c2_h == c2[1]
    IN  IF ~({c1_l, c2_l} \subseteq DOMAIN mem)
        THEN [reads |-> {c1_l, c2_l}, fault |-> TRUE, result |-> FALSE]
        ELSE IF XOR16(mem[c1_l], mem[c2_l]) # delta_r
        THEN [reads |-> {c1_l, c2_l}, fault |-> FALSE, result |-> FALSE]
        ELSE IF ~({c1_h, c2_h} \subseteq DOMAIN mem)
        THEN [reads |-> {c1_l, c2_l, c1_h, c2_h}, fault |-> TRUE, result |-> FALSE]
        ELSE [reads |-> {c1_l, c2_l, c1_h, c2_h}, fault |-> FALSE,
              result |-> XOR16(mem[c1_h], mem[c2_h]) = delta_l]

\* table[j] and table_base[j] hold two stored plaintexts; the memory of the
\* process is whatever it is
InitCheck ==
    /\ InitCipher /\ AIdle /\ HarnessIdle
    /\ runs = <<>> /\ rd = <<>> /\ it = <<>> /\ accesses = {} /\ conv = <<>>
    /\ \E c1 \in CheckHalves \X CheckHalves, c2 \in CheckHalves \X CheckHalves,
          dl \in CheckDeltas, d \in CheckDeltas, mem \in Memories :
          chk = [pc |-> "call", c1 |-> c1, c2 |-> c2, delta_l |-> dl, delta_r |-> d,
                 mem |-> mem, reads |-> {}, result |-> FALSE]

\* if (check_difference(&table[j], &table_base[j], ctx->delta_l, ctx->delta_r))
CheckDifference ==
    /\ chk.pc = "call"
    /\ \E o \in {check_difference(chk.mem, chk.c1, chk.c2, chk.delta_l, chk.delta_r)} :
          chk' = [chk EXCEPT !.pc = IF o.fault THEN "fault" ELSE "returned",
                             !.reads = o.reads,
                             !.result = o.result]
    /\ UNCHANGED <<cipherVars, aVars, harnessVars, frontVars, runs, rd, it, accesses,
                   conv>>

NextCheck == CheckDifference

vars == <<cipherVars, aVars, harnessVars, frontVars, sideVars>>

Init == InitCipher /\ AIdle /\ HarnessIdle /\ SideIdle

Next ==
    \/ fwd.op = "none" /\ \E k \in Keys : KeySchedule(k)
    \/ fwd.op = "none" /\ \E kb \in KeyBytes : KeyScheduleBytes(kb)
    \/ CanCall /\ \E x \in TextWords : Encrypt(x)
    \/ Decrypt
    \/ CanCall /\ \E x \in TextBytes, s1 \in 1..NUM_STEPS, s2 \in 1..NUM_STEPS :
          s1 <= s2 /\ EncryptSteps(x, s1, s2)
    \/ DecryptSteps
    \/ CanCall /\ \E x \in LinearTexts : LinearLayer(x)
    \/ InvertLinearLayer
    \/ CanCall /\ \E x \in TextBytes, r1 \in 1..NUM_ROUNDS, r2 \in 1..NUM_ROUNDS,
                     fill \in Fills :
          r1 <= r2 /\ EncryptRounds(x, r1, r2, fill)
    \/ CanCall /\ \E x \in TextWords, d \in TrailDeltas, n \in TrailSteps_num :
          EncryptStepsTrail(x, xor_difference_words(x, d), n)
    \/ CanCall /\ \E x \in TextBytes, n \in 1..NUM_ROUNDS_PER_STEP, fill \in Fills :
          EncryptRoundsNum(x, n, fill)
    \/ DecryptRoundsNum
    \/ CanCall /\ \E x \in TextBytes, n \in 1..NUM_ROUNDS_PER_STEP : InvertRoundsNum(x, n)
    \/ \E fill \in Fills : ReencryptRoundsNum(fill)
    \/ DecryptRoundsCall
    \/ \E fill \in Fills : DecryptRoundsIter(fill)
    \/ DecryptRoundsNextBranch
    \/ DecryptRoundsReturn

Spec == Init /\ [][Next]_vars

NextA == ApplyA \/ ApplyAInverse
SpecA == InitA /\ [][NextA]_vars

NextHarness ==
    \/ \E key \in KeyBytes : RunExperiment(key)
    \/ SpawnThread
    \/ \E w \in DOMAIN workers : BoomerangIteration(w)
    \/ \E w \in DOMAIN workers : BoomerangThreadExit(w)
    \/ \E w \in DOMAIN workers : TruncatedIteration(w)
    \/ \E w \in DOMAIN workers : TruncatedThreadExit(w)
    \/ JoinThread
    \/ Report
    \/ NextKey
    \/ Finish

SpecHarness == InitHarness /\ [][NextHarness]_vars

\* largest ctx->num_texts_per_key of a run with all NUM_THREADS workers
MaxTrials == 16

\* main with NUM_THREADS workers and one key: ctx as parse_args leaves it
InitRanges ==
    /\ InitCipher /\ AIdle /\ SideIdle
    /\ hmode \in {"boomerang", "truncated"}
    /\ \E num_texts \in 0..MaxTrials :
          hctx = IF hmode = "boomerang" THEN BoomerangCtx(num_texts)
                 ELSE TruncatedCtx(num_texts)
    /\ nthreads = NUM_THREADS
    /\ entropy = <<Word(\haacd, \h7a4e, \hb9f0, \hd4bf), Word(0, 0, 0, 0),
                   Word(\h0123, \h4567, \h89ab, \hcdef)>>
    /\ hpc = "main" /\ mi = 0 /\ offset = 0 /\ counter = 0
    /\ workers = [w \in 0..(nthreads - 1) |-> NotStarted]
    /\ outcome = <<>> /\ held = {} /\ printed = -1
    /\ num_keys = 1
    /\ ki = 0 /\ ctx_num_collisions = 0
    /\ reports = <<>> /\ average = <<>>

SpecRanges == InitRanges /\ [][NextHarness]_vars

\* input differences of the boomerang program with an all-zero delta
ZeroDeltaAlphas ==
    {to_uint8(W4(0, 0, \h8000, \h8000), SPARX64_STATE_LENGTH),
     to_uint8(W4(\h802a, \hd4a8, 0, 1), SPARX64_STATE_LENGTH)}

\* main of the boomerang program with delta = 0, two workers and one key
InitZeroDelta ==
    /\ InitCipher /\ AIdle /\ SideIdle
    /\ hmode = "boomerang"
    /\ \E num_texts \in 0..MaxTexts, num_steps \in 1..NUM_STEPS,
          alpha \in ZeroDeltaAlphas :
          hctx = [num_texts_per_key |-> num_texts,
                  num_steps |-> num_steps,
                  alpha |-> alpha,
                  delta |-> to_uint8(W4(0, 0, 0, 0), SPARX64_STATE_LENGTH)]
    /\ nthreads = 2
    /\ entropy \in EntropyStreams
    /\ hpc = "main" /\ mi = 0 /\ offset = 0 /\ counter = 0
    /\ workers = [w \in 0..(nthreads - 1) |-> NotStarted]
    /\ outcome = <<>> /\ held = {} /\ printed = -1
    /\ num_keys = 1
    /\ ki = 0 /\ ctx_num_collisions = 0
    /\ reports = <<>> /\ average = <<>>

\* the boomerang program
NextBoomerang ==
    \/ \E key \in KeyBytes : RunExperiment(key)
    \/ SpawnThread
    \/ \E w \in DOMAIN workers : BoomerangIteration(w)
    \/ \E w \in DOMAIN workers : BoomerangThreadExit(w)
    \/ JoinThread
    \/ Report
    \/ NextKey
    \/ Finish

SpecZeroDelta == InitZeroDelta /\ [][NextBoomerang]_vars

NextPrng ==
    \/ \E r \in 1..2 : SeededPass(r)
    \/ \E r \in 1..2 : SeededReturn(r)

SpecPrng == InitPrng /\ [][NextPrng]_vars

NextGetRandom == GetRandomWord \/ GetRandomRest

SpecGetRandom == InitGetRandom /\ [][NextGetRandom]_vars

\* the conversions of utils/convert.cpp, composed
SpecConvert == InitConvert /\ [][NextConvert]_vars

\* one call of check_difference
SpecCheck == InitCheck /\ [][NextCheck]_vars

NextThreads ==
    \/ \E w \in DOMAIN runs, seed \in SeedStates : ThreadSeeds(w, seed)
    \/ \E w \in DOMAIN runs : ThreadPass(w)
    \/ \E w \in DOMAIN runs : ThreadReturn(w)

SpecThreads == InitThreads /\ [][NextThreads]_vars

\* the sequences of bytes one read() can deliver
ReadChunks == UNION {[1..n -> ByteSamples] : n \in 1..MaxBytes}

NextRead ==
    \/ \E bytes \in ReadChunks : ReadStores(bytes)
    \/ ReadFails
    \/ GetRandomReturns

\* the key schedule on its own, by either overload
NextKeys ==
    \/ \E k \in ScheduleKeys : KeySchedule(k)
    \/ \E k \in ScheduleKeys : KeyScheduleBytes(to_uint8(k, 2 * SPARX64_NUM_KEY_WORDS))

SpecKeys == Init /\ [][NextKeys]_vars

NextIterator == IteratorNext \/ IteratorReset

SpecIterator == InitIterator /\ [][NextIterator]_vars

\* the thread inside the function keeps running
SpecRead == InitRead /\ [][NextRead]_vars /\ WF_vars(NextRead)

(***************************************************************************)
(* Expected values of sparx-64-tests.cpp                                   *)
(***************************************************************************)
SPARX_64_128_EXPANDED_KEYS ==
    Arr(<<Arr(<<\h0011, \h2233, \h4455, \h6677, \h8899, \haabb>>),
          Arr(<<\hccdd, \hef00, \h4433, \hccff, \h8888, \h3376>>),
          Arr(<<\h8899, \haabd, \haa99, \h169a, \heecc, \he399>>),
          Arr(<<\h8888, \h3379, \hddce, \h7738, \h8867, \h8dd2>>),
          Arr(<<\heecc, \he39d, \h448a, \h896e, \h2258, \h00a6>>),
          Arr(<<\h8867, \h8dd7, \h7d7a, \hf30d, \hc204, \h7c7b>>),
          Arr(<<\h2258, \h00ac, \h5ce7, \h6bb9, \hda61, \h5ec6>>),
          Arr(<<\hc204, \h7c82, \hb0f0, \hb240, \h0dd7, \h1df9>>),
          Arr(<<\hda61, \h5ece, \h8606, \h740f, \h36f6, \h264f>>),
          Arr(<<\h0dd7, \h1e02, \h2282, \h59bb, \ha888, \hcdca>>),
          Arr(<<\h36f6, \h2659, \hcc1d, \hb415, \hee9f, \h0dd0>>),
          Arr(<<\ha888, \hcdd5, \h12c6, \h8ba2, \hdee3, \h3fb7>>),
          Arr(<<\hee9f, \h0ddc, \hdf26, \he871, \hf1ec, \h7413>>),
          Arr(<<\hdee3, \h3fc4, \h4db9, \h7ac9, \h2cdf, \h633a>>),
          Arr(<<\hf1ec, \h7421, \h0781, \hf891, \h553a, \h735a>>),
          Arr(<<\h2cdf, \h6349, \h4e04, \h9e81, \h5585, \h9712>>),
          Arr(<<\h553a, \h736a, \h21a2, \hac87, \h6fa6, \h4b08>>)>>)

(***************************************************************************)
(* Claims about the cipher engine (specification Spec)                     *)
(***************************************************************************)

\* C1: step-indexed decryption over [s1, s2] of the step-indexed encryption of
\* x over [s1, s2] is x, for every key, every x and every 1 <= s1 <= s2 <= 8.
C1_StepRoundTrip == inv.op = "dec_steps" => q = p

C1_Witness ==
    /\ inv.op = "dec_steps" /\ fwd.from = 3 /\ fwd.to = NUM_STEPS
    /\ c # p /\ q = p

\* C2: under the test master key, sparx_encrypt of the test plaintext is the
\* test ciphertext and sparx_decrypt of that ciphertext is the plaintext.
C2_KnownAnswer ==
    (master = SPARX_64_128_KEY /\ fwd.op = "encrypt" /\ p = SPARX_64_128_PLAINTEXT)
        => /\ c = SPARX_64_128_CIPHERTEXT
           /\ inv.op = "decrypt" => q = SPARX_64_128_PLAINTEXT

C2_Witness ==
    /\ master = SPARX_64_128_KEY /\ inv.op = "decrypt"
    /\ p = SPARX_64_128_PLAINTEXT /\ c = SPARX_64_128_CIPHERTEXT /\ q = p

\* C3: sparx_key_schedule on the test master key fills the 17 groups of 6
\* words with the documented expanded-key table, word for word.
C3_ExpandedKeys ==
    (keyed /\ master = SPARX_64_128_KEY) => subkeys = SPARX_64_128_EXPANDED_KEYS

C3_Witness ==
    /\ keyed /\ master = SPARX_64_128_KEY
    /\ subkeys[NUM_ROUND_KEYS - 1][ROW_WORDS - 1] = \h4b08

\* C4: round-indexed decryption over [r1, r2] of the round-indexed encryption
\* of x over [r1, r2] returns x, for 1 <= r1 <= r2 <= 24: the call comes back
\* (its loop counter never passes below from_round-1 and wraps) with q = p.
C4_RoundRoundTrip ==
    /\ inv.op = "dec_rounds" => q = p
    /\ pc = "dec_rounds" => dr.r >= 0

\* C5: round-indexed decryption over [from_round, to_round] inverts exactly
\* to_round - from_round + 1 rounds per branch and then terminates, also for
\* from_round = 1.
C5_RoundsPerBranch ==
    pc = "dec_rounds" => dr.iters <= dr.to - dr.from + 1

\* C6: sparx_invert_linear_layer applied to sparx_linear_layer(x) returns x.
C6_LinearRoundTrip == inv.op = "inv_linear" => q = p

C6_Witness == inv.op = "inv_linear" /\ c # p /\ q = p /\ p[0] # 0

\* the state before the last step of the range of the last sparx_encrypt_steps
BeforeLastStep ==
    EncStepsLoop(subkeys, to_uint16(p, SPARX64_STATE_LENGTH), fwd.from - 1, fwd.to - 1)

\* C8 as stated: L follows every step of the range, except that after step 8
\* there is no L and the terminal whitening is applied instead.
C8_NoLayerAfterLastStep ==
    fwd.op = "enc_steps" =>
        c = to_uint8(
              IF fwd.to = NUM_STEPS
              THEN Whitening(subkeys, EncStepRounds(subkeys, BeforeLastStep, fwd.to - 1, 0, 0))
              ELSE L2(EncStepRounds(subkeys, BeforeLastStep, fwd.to - 1, 0, 0)),
              SPARX64_STATE_LENGTH)

\* C8 amended: L follows every step of the range, step 8 included; when the
\* range ends at step 8 the terminal whitening is applied after that L.
C8_LayerAfterEveryStep ==
    fwd.op = "enc_steps" =>
        c = to_uint8(
              IF fwd.to = NUM_STEPS
              THEN Whitening(subkeys,
                             L2(EncStepRounds(subkeys, BeforeLastStep, fwd.to - 1, 0, 0)))
              ELSE L2(EncStepRounds(subkeys, BeforeLastStep, fwd.to - 1, 0, 0)),
              SPARX64_STATE_LENGTH)

C8_Witness ==
    /\ fwd.op = "enc_steps" /\ fwd.from = 7 /\ fwd.to = NUM_STEPS
    /\ c # to_uint8(Whitening(subkeys,
                              EncStepRounds(subkeys, BeforeLastStep, fwd.to - 1, 0, 0)),
                    SPARX64_STATE_LENGTH)

(***************************************************************************)
(* Claims about A and A_inverse (specification SpecA)                      *)
(***************************************************************************)

\* C7: A_inverse(A(l, r)) = (l, r) for all 16-bit l, r, also when the
\* addition wraps, and every word stored on the way is in 0..65535.
C7_ARoundTrip ==
    /\ astage = "out" => <<al, ar>> = a0
    /\ al \in 0..(Pow16 - 1) /\ ar \in 0..(Pow16 - 1)
    /\ \A i \in DOMAIN astores : astores[i] \in 0..(Pow16 - 1)
    /\ astage = "mid" =>
          /\ al = ((ROTR16(a0[1], 7) % Pow16) + a0[2]) % Pow16
          /\ ar = XOR16(ROTL16(a0[2], 2) % Pow16, al)

\* the addition of A wrapped around, and the pair came back
C7_Witness ==
    /\ astage = "out" /\ <<al, ar>> = a0
    /\ (ROTR16(a0[1], 7) % Pow16) + a0[2] >= Pow16
    /\ a0[1] # a0[2]

(***************************************************************************)
(* Claims about the threaded experiments (specification SpecHarness)       *)
(***************************************************************************)
\* every thread.join() has returned
AllJoined == (hpc = "join" /\ mi = nthreads) \/ hpc = "done"

\* the subtotals that running workers have not yet added to the counter
RECURSIVE PendingFrom(_)
PendingFrom(w) ==
    IF w >= nthreads THEN 0
    ELSE (IF workers[w].st = "run" THEN workers[w].num_collisions ELSE 0)
         + PendingFrom(w + 1)

\* the trial indices in [0, P) whose match predicate holds
MatchingTrials ==
    {i \in 0..(hctx.num_texts_per_key - 1) : outcome[RandomWord(entropy, i)]}

\* C9: in every interleaving of the workers no update of the shared counter
\* is lost: the counter and the subtotals still held by running workers
\* always add up to the number of trials whose predicate held, and once all
\* workers are joined the counter is the number of trial indices in [0, P)
\* whose match predicate held, for both programs.
C9_NoLostUpdate ==
    /\ hpc \in {"spawn", "join", "done"} =>
          counter + PendingFrom(0) = Cardinality(held)
    /\ AllJoined => /\ held = MatchingTrials
                    /\ counter = Cardinality(MatchingTrials)

\* two workers each had a matching trial, a third trial did not match, and
\* all workers are joined
C9_Witness ==
    /\ AllJoined /\ counter >= 2
    /\ Cardinality(held) < hctx.num_texts_per_key
    /\ \E w1 \in DOMAIN workers, w2 \in DOMAIN workers :
          /\ w1 # w2
          /\ \E i \in held : workers[w1].from <= i /\ i < workers[w1].to
          /\ \E i \in held : workers[w2].from <= i /\ i < workers[w2].to

\* C10: for a fixed key and a fixed sequence of P trials, the count printed
\* after the index range was split over N workers by the chunking rule is the
\* count of a single worker running over [0, P), for every N and P of the
\* model (P < N and P not a multiple of N included).
C10_SameCountAsSingleWorker ==
    hpc = "done" =>
        printed = experiment_thread_count(entropy, outcome, 0,
                                          hctx.num_texts_per_key, 0)

\* P is not a multiple of N, every worker has trials, and a trial of the
\* remainder taken by the last worker matched
C10_Witness ==
    /\ hpc = "done" /\ nthreads > 1 /\ offset > 0
    /\ hctx.num_texts_per_key % nthreads # 0
    /\ (hctx.num_texts_per_key - 1) \in held
    /\ printed > 0 /\ printed < hctx.num_texts_per_key

\* the sum of the per-key counts printed so far
RECURSIVE SumSeq(_)
SumSeq(seq) == IF seq = <<>> THEN 0 ELSE Head(seq) + SumSeq(Tail(seq))

\* C11: in every front end each key's count is reported and added to a
\* running total that starts at 0, so that the total is the sum of the counts
\* reported so far, and the terminal output is that total divided by the
\* number of keys K.
C11_TotalAndAverage ==
    /\ hpc \in {"main", "exit"} => Len(reports) = ki
    /\ hpc \in {"main", "spawn", "join", "done", "exit"} =>
          ctx_num_collisions = SumSeq(reports)
    /\ (hpc = "exit" /\ num_keys > 0) =>
          average = <<SumSeq(reports), num_keys>>

\* C12: under a fixed key, for two plaintexts with difference 0x802A, 0xD4A8,
\* the XOR of their round-indexed encryptions over rounds 1..4 is the
\* difference that lock-step trail propagation prints after its fourth round
\* (the sixth line it prints: the start, three rounds, the linear layer, and
\* the fourth round).
C12_TrailAgreesWithRounds ==
    (fwd.op = "trail" /\ fwd.to >= 2) =>
        c[6] = xor_difference_words(
                   sparx_encrypt_rounds_state(subkeys, p[1], 1, 4, 0),
                   sparx_encrypt_rounds_state(subkeys, p[2], 1, 4, 0))

\* the first n entries of seq
Prefix(seq, n) == SubSeq(seq, 1, n)

FilledUpToLen ==
    /\ rd.len = Len(rd.delivered) /\ rd.len <= rd.num_bytes
    /\ \A k \in DOMAIN rd.data :
          rd.data[k] = IF k < rd.len THEN rd.delivered[k + 1] ELSE -1

ReadOutcomes ==
    /\ FilledUpToLen
    /\ rd.pc = "returned" => (rd.len = rd.num_bytes /\ ~rd.failed)
    /\ rd.failed <=> rd.pc = "exited"
    /\ rd.pc = "exited" => rd.status = "EXIT_FAILURE"

RECURSIVE BigEndian(_, _)
BigEndian(bytes, n) ==
    IF n = 0 THEN 0 ELSE 256 * BigEndian(bytes, n - 1) + bytes[n - 1]

\* the number of one-bits of x
RECURSIVE PopCount(_)
PopCount(x) == IF x = 0 THEN 0 ELSE (x % 2) + PopCount(x \div 2)

\* the values of the example in the documentation of StateIterator
ExampleValues ==
    <<Arr(<<\h00, \h00>>), Arr(<<\h00, \h01>>), Arr(<<\h00, \h40>>),
      Arr(<<\h00, \h41>>), Arr(<<\h80, \h00>>), Arr(<<\h80, \h01>>),
      Arr(<<\h80, \h40>>), Arr(<<\h80, \h41>>)>>

\* C15: for a mask with k one-bits, from construction or reset(), next()
\* called while has_next() holds yields exactly 2^k values and then has_next()
\* is false; each value has one-bits only where the mask has them, and the
\* values come in strictly increasing big-endian order from the all-zero
\* value (hence pairwise distinct); mask [0x80, 0x41] gives 0000, 0001, 0040,
\* 0041, 8000, 8001, 8040, 8041.
C15_EnumeratesMaskedValues ==
    LET n == it.num_state_bytes
        k == PopCount(BigEndian(it.states_mask, n))
        v == it.returned
    IN  /\ Len(v) <= Pow2(k)
        /\ has_next(it) <=> Len(v) < Pow2(k)
        /\ \A x \in 1..Len(v) :
              /\ DOMAIN v[x] = 0..(n - 1)
              /\ \A i \in 0..(n - 1) :
                    AndBits(v[x][i], it.states_mask[i], 8) = v[x][i]
              /\ x = 1 => BigEndian(v[x], n) = 0
              /\ x > 1 => BigEndian(v[x - 1], n) < BigEndian(v[x], n)
        /\ (it.states_mask = Arr(<<\h80, \h41>>) /\ ~has_next(it)) =>
              v = ExampleValues

\* the iterator over mask [0x80, 0x41] has returned all its 8 values and has
\* no next one
C15_Witness ==
    /\ it.states_mask = Arr(<<\h80, \h41>>)
    /\ ~has_next(it) /\ Len(it.returned) = 8
    /\ it.returned[8] = Arr(<<\h80, \h41>>)

\* one application of the key permutation with counter j, as described: A on
\* words 0,1; the new words 0,1 added into words 2,3; j added into word 7;
\* then the rotation by two words
DescribedPermutation(reg, j) ==
    LET a == A(reg[0], reg[1])
        mixed == [reg EXCEPT ![0] = a[1], ![1] = a[2],
                             ![2] = (reg[2] + a[1]) % 65536,
                             ![3] = (reg[3] + a[2]) % 65536,
                             ![7] = (reg[7] + j) % 65536]
    IN  [i \in 0..7 |-> mixed[(i + 6) % 8]]

\* the key register after n applications
RECURSIVE DescribedRegister(_, _)
DescribedRegister(key, n) ==
    IF n = 0 THEN key ELSE DescribedPermutation(DescribedRegister(key, n - 1), n)

\* C16: subkey group c (0 <= c <= 16) is words 0..5 of the key register
\* after c applications of the key permutation to the master key, the j-th
\* application using counter j; the byte-keyed overload gives the schedule of
\* the word-keyed one on the big-endian conversion of the key.
C16_ScheduleIsIteratedPermutation ==
    keyed =>
        /\ \A g \in 0..16 : \A i \in 0..5 :
              subkeys[g][i] = DescribedRegister(master, g)[i]
        /\ sparx_key_schedule(master) = subkeys
        /\ sparx_key_schedule_bytes(to_uint8(master, 16)) = subkeys

\* a key whose word 7 is 0xffff was scheduled: adding counter 1 wraps around
\* to 0, which the rotation moves to word 1 of group 1
C16_Witness ==
    /\ keyed /\ master[7] = 65535 /\ master[0] = 32810
    /\ subkeys[1][1] = 0 /\ subkeys[0][1] = 65535


(***************************************************************************)
(* C17                                                                     *)
(***************************************************************************)
\* the subkey table with group 16 replaced by row
WithLastGroup(sk, row) == [sk EXCEPT ![NUM_BRANCHES * NUM_STEPS] = row]

ZeroGroup == Arr(<<0, 0, 0, 0, 0, 0>>)

\* group 16 with every word complemented
OtherGroup(sk) ==
    [i \in 0..5 |-> XOR16(sk[NUM_BRANCHES * NUM_STEPS][i], 65535)]

\* group 16 with words 4 and 5 complemented
OtherTail(sk) ==
    [i \in 0..5 |-> IF i >= 4 THEN XOR16(sk[NUM_BRANCHES * NUM_STEPS][i], 65535)
                    ELSE sk[NUM_BRANCHES * NUM_STEPS][i]]

\* words 0..3 of group 16 xored into state words 0..3 of a byte text
TerminalWhitening(sk, text) ==
    LET state == to_uint16(text, SPARX64_STATE_LENGTH)
    IN  to_uint8([i \in 0..3 |-> XOR16(state[i], sk[NUM_BRANCHES * NUM_STEPS][i])],
                 SPARX64_STATE_LENGTH)

\* C17: step-indexed encryption applies the terminal whitening (words 0..3 of
\* subkey group 16 xored into state words 0..3) exactly when to_step = 8, as
\* its last operation: the result is the whitening of what the same call
\* computes with group 16 zeroed. Step-indexed decryption applies it exactly
\* when to_step = 8, as its first operation: the result is what the call with
\* group 16 zeroed computes from the whitened input. For to_step < 8 the
\* result of either direction does not depend on group 16, and words 4 and 5
\* of group 16 never matter.
C17_WhiteningOnlyAtLastStep ==
    /\ fwd.op = "enc_steps" =>
          /\ sparx_encrypt_steps(WithLastGroup(subkeys, OtherTail(subkeys)),
                                 p, fwd.from, fwd.to) = c
          /\ IF fwd.to = 8
             THEN c = TerminalWhitening(subkeys,
                          sparx_encrypt_steps(WithLastGroup(subkeys, ZeroGroup),
                                              p, fwd.from, fwd.to))
             ELSE sparx_encrypt_steps(WithLastGroup(subkeys, OtherGroup(subkeys)),
                                      p, fwd.from, fwd.to) = c
    /\ inv.op = "dec_steps" =>
          /\ sparx_decrypt_steps(WithLastGroup(subkeys, OtherTail(subkeys)),
                                 c, inv.from, inv.to) = q
          /\ IF inv.to = 8
             THEN q = sparx_decrypt_steps(WithLastGroup(subkeys, ZeroGroup),
                                          TerminalWhitening(subkeys, c),
                                          inv.from, inv.to)
             ELSE sparx_decrypt_steps(WithLastGroup(subkeys, OtherGroup(subkeys)),
                                      c, inv.from, inv.to) = q

\* a decryption of steps 3..8 under a key whose group 16 is non-zero in
\* words 0..3 has returned the plaintext
C17_Witness ==
    /\ inv.op = "dec_steps" /\ inv.from = 3 /\ inv.to = 8
    /\ \A i \in 0..3 : subkeys[NUM_BRANCHES * NUM_STEPS][i] # 0
    /\ q = p


(***************************************************************************)
(* C18                                                                     *)
(***************************************************************************)
\* worker w has completed the loop pass of trial index idx
Processed(w, idx) == workers[w].from <= idx /\ idx < workers[w].j

\* C18: with 8 workers and P = num_texts_per_key, worker i is started on
\* [i*floor(P/8), (i+1)*floor(P/8)), the last worker's range ending at P; once
\* all 8 are started the ranges are contiguous from 0 to P and every index of
\* [0, P) lies in exactly one of them; no index is processed by two workers,
\* and when all workers have returned every index has been processed by
\* exactly one worker.
C18_RangesPartitionTrials ==
    (nthreads = 8 /\ hpc \in {"spawn", "join", "done"}) =>
        LET P == hctx.num_texts_per_key
            f == P \div 8
            started == {w \in 0..7 : workers[w].st # "none"}
            InRange(w, idx) == workers[w].from <= idx /\ idx < workers[w].to
        IN  /\ \A w \in started :
                  /\ workers[w].from = w * f
                  /\ workers[w].to = IF w = 7 THEN P ELSE (w + 1) * f
                  /\ workers[w].from <= workers[w].j /\ workers[w].j <= workers[w].to
            /\ \A idx \in 0..(P - 1) :
                  Cardinality({w \in started : Processed(w, idx)}) <= 1
            /\ hpc \in {"join", "done"} =>
                  /\ started = 0..7
                  /\ workers[0].from = 0 /\ workers[7].to = P
                  /\ \A w \in 0..6 : workers[w].to = workers[w + 1].from
                  /\ \A idx \in 0..(P - 1) :
                        Cardinality({w \in 0..7 : InRange(w, idx)}) = 1
            /\ hpc = "done" =>
                  \A idx \in 0..(P - 1) :
                      Cardinality({w \in 0..7 : Processed(w, idx)}) = 1

\* 15 trials over 8 workers: seven ranges of 1 and the last one [7, 15), all
\* workers joined and the count printed
C18_Witness ==
    /\ nthreads = 8 /\ hpc = "done" /\ hctx.num_texts_per_key = 15
    /\ workers[1].from = 1 /\ workers[1].to = 2 /\ workers[1].j = 2
    /\ workers[7].from = 7 /\ workers[7].to = 15 /\ workers[7].j = 15


(***************************************************************************)
(* C19                                                                     *)
(***************************************************************************)
\* every worker of the current key has returned and has been joined
AllWorkersJoined ==
    /\ hpc \in {"join", "done"} /\ mi = nthreads
    /\ \A w \in DOMAIN workers : workers[w].st = "done"

\* a step that starts a worker
StartsWorker ==
    \E w \in DOMAIN workers : workers[w].st = "none" /\ workers'[w].st = "run"

\* C19: for each key, (1) a worker starts only after the key schedule of that
\* key has completed: the table is the schedule of the key and the step leaves
\* it alone; (2) the shared counter is printed or added to the running total
\* only when all workers of the key have returned and been joined; (3) the
\* loop moves to the next key only after the report, with all workers joined,
\* and a key is scheduled only when no worker of an earlier key is left, so no
\* worker of key i+1 starts before every worker of key i has been joined.
C19_ScheduleSpawnJoinReport ==
    [][/\ StartsWorker =>
             /\ hpc = "spawn" /\ keyed
             /\ subkeys = sparx_key_schedule(master)
             /\ subkeys' = subkeys /\ ki' = ki
             /\ Len(reports) = ki
       /\ (reports' # reports \/ ctx_num_collisions' # ctx_num_collisions
             \/ (printed' # printed /\ printed' # -1)) =>
             /\ AllWorkersJoined
             /\ reports' = Append(reports, counter)
             /\ Len(reports') = ki + 1
       /\ ki' # ki =>
             /\ ki' = ki + 1
             /\ hpc = "done" /\ mi = nthreads
             /\ \A w \in DOMAIN workers : workers[w].st = "done"
             /\ Len(reports) = ki + 1
       /\ (subkeys' # subkeys \/ master' # master) =>
             \A w \in DOMAIN workers :
                 workers[w].st = "none" /\ workers'[w].st = "none"
      ]_vars

\* a worker of the second key is running after the report for the first key,
\* which had all 8 workers
C19_Witness ==
    /\ nthreads = 8 /\ ki = 1 /\ Len(reports) = 1 /\ hpc = "join"
    /\ workers[7].st = "run" /\ workers[7].j > workers[7].from


(***************************************************************************)
(* C20                                                                     *)
(***************************************************************************)
\* the threads that have written object o
WritersOf(o) == {a[1] : a \in {x \in accesses : x[2] = o /\ x[3] = "w"}}

\* the threads that have read or written object o
UsersOf(o) == {a[1] : a \in {x \in accesses : x[2] = o}}

\* what the workers have done to memory so far
OnlyCounterIsShared ==
    /\ \A a \in accesses :
          Cardinality(WritersOf(a[2])) > 1 => a[2] = Shared("counter")
    /\ WritersOf(Shared("sparx_ctx")) = {} /\ WritersOf(Shared("ctx")) = {}
    /\ \A w \in DOMAIN runs :
          /\ UsersOf(Own("xorshift_ctx", w)) \subseteq {w}
          /\ UsersOf(Own("buffers", w)) \subseteq {w}
          /\ runs[w].seedings <= 1
          /\ (runs[w].st # "start" \/ Len(runs[w].words) > 0) => runs[w].seedings = 1
    /\ subkeys = sparx_key_schedule(master)

\* C20: while the workers run, the counter is the only object written by more
\* than one thread; no worker writes the key table or the configuration, and
\* neither changes; each worker's generator context and buffers are read and
\* written by that worker only; a context is seeded once, before the worker's
\* first trial, and afterwards changes only in a pass of that worker's own
\* loop, which draws one word from it.
C20_OnlyCounterIsShared ==
    /\ []OnlyCounterIsShared
    /\ [][/\ subkeys' = subkeys /\ master' = master /\ hctx' = hctx
          /\ \A w \in DOMAIN runs :
                runs'[w].xorshift_ctx # runs[w].xorshift_ctx =>
                    \/ runs[w].st = "start" /\ runs'[w].st = "run"
                    \/ /\ runs[w].st = "run" /\ runs'[w].i = runs[w].i + 1
                       /\ Len(runs'[w].words) = Len(runs[w].words) + 1
                       /\ runs'[w].seedings = runs[w].seedings
          /\ \A w \in DOMAIN runs :
                runs'[w].pairs # runs[w].pairs => runs'[w].i = runs[w].i + 1
         ]_vars

\* both workers have returned, each after at least one trial, and both have
\* written the counter
C20_Witness ==
    /\ runs # <<>> /\ accesses # {}
    /\ \A w \in DOMAIN runs : runs[w].st = "done" /\ Len(runs[w].words) > 0
    /\ WritersOf(Shared("counter")) = {1, 2}
    /\ runs[1].xorshift_ctx # runs[2].xorshift_ctx


(***************************************************************************)
(* C21                                                                     *)
(***************************************************************************)
\* the first n rounds of step s on both branches of state
RECURSIVE RoundsOfStep(_, _, _, _, _, _)
RoundsOfStep(sk, state, s, b, r, n) ==
    IF Strict(state) /\ b >= NUM_BRANCHES THEN state
    ELSE IF r >= n THEN RoundsOfStep(sk, state, s, b + 1, 0, n)
    ELSE RoundsOfStep(sk, EncRound(sk, state, s * NUM_BRANCHES + b, b, r, 0),
                      s, b, r + 1, n)

\* the state of an encryption of x after s whole steps and n rounds of the
\* following step
StateAt(sk, x, s, n) == RoundsOfStep(sk, EncStepsLoop(sk, x, 0, s), s, 0, 0, n)

\* what a trail over the pair held in p must have printed
TrailIsObservation ==
    fwd.op = "trail" =>
        LET n == fwd.to
            Diff(s, k) == xor_difference_words(StateAt(subkeys, p[1], s, k),
                                               StateAt(subkeys, p[2], s, k))
        IN  /\ Len(c) = 1 + 4 * n + (IF n = 8 THEN 1 ELSE 0)
            /\ c[1] = xor_difference_words(p[1], p[2])
            /\ \A s \in 0..(n - 1) :
                  /\ \A k \in 1..3 : c[1 + 4 * s + k] = Diff(s, k)
                  /\ c[1 + 4 * s + 4] = Diff(s + 1, 0)
            /\ c[Len(c)] =
                  xor_difference_words(sparx_encrypt_steps_state(subkeys, p[1], 1, n),
                                       sparx_encrypt_steps_state(subkeys, p[2], 1, n))
            /\ subkeys = sparx_key_schedule(master)

\* C21: a trail over n steps prints the input difference, then per step one
\* difference after each of the 3 rounds and one after the linear layer, and
\* one more after the whitening when n = 8; each printed value is the xor of
\* the two states of the direct encryptions at that point and the last is
\* encrypt_steps(p1, 1, n) xor encrypt_steps(p2, 1, n); the call leaves the
\* key table as the key schedule made it, and p1 and p2 are those passed in.
C21_TrailObservesEncryption ==
    /\ []TrailIsObservation
    /\ [][fwd'.op = "trail" =>
             /\ subkeys' = subkeys /\ master' = master
             /\ (fwd.op = "trail" => p' = p)
             /\ xor_difference_words(p'[1], p'[2]) \in TrailDeltas]_vars

\* a trail over all 8 steps has printed its 34 differences, the last two of
\* which are equal and not zero
C21_Witness ==
    /\ fwd.op = "trail" /\ fwd.to = 8 /\ Len(c) = 34
    /\ c[34] = c[33] /\ c[34] # W4(0, 0, 0, 0) /\ c[2] # c[1]


(***************************************************************************)
(* C22                                                                     *)
(***************************************************************************)
\* the byte text with the words of branch b taken from x and the words of the
\* other branch from y
WithOtherBranch(x, y, b) ==
    LET xw == to_uint16(x, SPARX64_STATE_LENGTH)
        yw == to_uint16(y, SPARX64_STATE_LENGTH)
    IN  to_uint8([i \in 0..3 |-> IF i \div 2 = b THEN xw[i] ELSE yw[i]],
                 SPARX64_STATE_LENGTH)

\* the two words of branch b of a byte text
BranchOf(x, b) ==
    <<to_uint16(x, SPARX64_STATE_LENGTH)[2 * b],
      to_uint16(x, SPARX64_STATE_LENGTH)[2 * b + 1]>>

\* the subkey table with every group complemented but group g
OnlyGroup(sk, g) ==
    [k \in DOMAIN sk |-> IF k = g THEN sk[k]
                         ELSE [i \in DOMAIN sk[k] |-> XOR16(sk[k][i], 65535)]]

\* C22: encrypt_rounds(x, 1, 3) does no mixing between the branches: branch b
\* of its result stays the same when the other branch of x is replaced and
\* when every subkey group but group b is replaced; and the standalone linear
\* layer applied to encrypt_rounds(x, 1, 3) is encrypt_steps(x, 1, 1).
C22_RoundsThenLayerIsStep ==
    (fwd.op = "enc_rounds" /\ fwd.from = 1 /\ fwd.to = 3) =>
        /\ sparx_linear_layer(c) = sparx_encrypt_steps(subkeys, p, 1, 1)
        /\ \A b \in 0..1 :
              /\ \A y \in TextBytes :
                    BranchOf(sparx_encrypt_rounds(subkeys, WithOtherBranch(p, y, b),
                                                  1, 3, 0), b)
                        = BranchOf(c, b)
              /\ BranchOf(sparx_encrypt_rounds(OnlyGroup(subkeys, b), p, 1, 3, 0), b)
                     = BranchOf(c, b)

\* rounds 1..3 of a text whose branches differ have been computed, and the
\* linear layer changes the result
C22_Witness ==
    /\ fwd.op = "enc_rounds" /\ fwd.from = 1 /\ fwd.to = 3 /\ inv.op = "none"
    /\ BranchOf(p, 0) # BranchOf(p, 1)
    /\ sparx_linear_layer(c) # c


(***************************************************************************)
(* C23                                                                     *)
(***************************************************************************)
\* C23: for n in 1..3 the num_rounds forms undo one another in either order:
\* decrypt_rounds(encrypt_rounds(x, n), n) = x and
\* encrypt_rounds(decrypt_rounds(x, n), n) = x; and a pair of internal states
\* with difference alpha, inverted by 2 rounds as in the truncated-differential
\* experiment, gives plaintexts whose encryptions are in exactly those
\* internal states after the first 2 rounds of step 1.
C23_NumRoundsFormsInvert ==
    /\ (fwd.op = "enc_rounds_num" /\ inv.op = "dec_rounds_num") => q = p
    /\ (fwd.op = "dec_rounds_num" /\ inv.op = "enc_rounds_num") => q = p
    /\ (fwd.op = "dec_rounds_num" /\ fwd.to = 2) =>
          LET alpha == TruncatedCtx(0).alpha
              internalstate2 == xor_difference(p, alpha, SPARX64_STATE_LENGTH)
              plaintext2 == sparx_decrypt_rounds_num(subkeys, internalstate2, 2)
              s1 == StateAt(subkeys, to_uint16(c, SPARX64_STATE_LENGTH), 0, 2)
              s2 == StateAt(subkeys, to_uint16(plaintext2, SPARX64_STATE_LENGTH), 0, 2)
          IN  /\ s1 = to_uint16(p, SPARX64_STATE_LENGTH)
              /\ s2 = to_uint16(internalstate2, SPARX64_STATE_LENGTH)
              /\ xor_difference_words(s1, s2) = to_uint16(alpha, SPARX64_STATE_LENGTH)

\* two rounds were inverted and encrypted again, which gave the text back
C23_Witness ==
    /\ fwd.op = "dec_rounds_num" /\ fwd.to = 2 /\ inv.op = "enc_rounds_num"
    /\ q = p /\ c # p



(***************************************************************************)
(* C24                                                                     *)
(***************************************************************************)
\* C24: round-indexed encryption composes over adjacent ranges of the global
\* round counter: encrypt_rounds(encrypt_rounds(x, r1, r2), r2+1, r3) =
\* encrypt_rounds(x, r1, r3) for r1 <= r2 < r3.  Stated for the ranges that lie
\* in rounds 1..3, where every subkey read is inside its group.
C24_RoundsCompose ==
    (fwd.op = "enc_rounds" /\ fwd.to <= 3) =>
        \A r2 \in fwd.from..(fwd.to - 1) :
            sparx_encrypt_rounds(subkeys,
                                 sparx_encrypt_rounds(subkeys, p, fwd.from, r2, 0),
                                 r2 + 1, fwd.to, 0) = c


(***************************************************************************)
(* C25                                                                     *)
(***************************************************************************)
\* C25: every subkey read of round-indexed encryption and decryption over a
\* range 1 <= from_round <= to_round <= 24 addresses an entry of the 17-group
\* by 6-word table: the group index floor(from_round/3)*2 + b is at most 16
\* and the word indices 2*r and 2*r+1 are at most 5.
C25_SubkeyReadsInTable ==
    /\ fwd.op = "enc_rounds" =>
          \A b \in 0..(NUM_BRANCHES - 1), r \in (fwd.from - 1)..(fwd.to - 1) :
              /\ (fwd.from \div NUM_ROUNDS_PER_STEP) * NUM_BRANCHES + b <= 16
              /\ 2 * r + 1 <= 5
    /\ (pc = "dec_rounds" /\ dr.b < NUM_BRANCHES /\ SizeGE(dr.r, dr.from - 1)) =>
          /\ dr.s * NUM_BRANCHES + dr.b <= 16
          /\ 2 * dr.r >= 0 /\ 2 * dr.r + 1 <= 5


(***************************************************************************)
(* C26                                                                     *)
(***************************************************************************)
\* the trials the started workers have completed
RECURSIVE CompletedTrials(_)
CompletedTrials(ws) ==
    IF ws = {} THEN 0
    ELSE LET w == CHOOSE v \in ws : TRUE
         IN  (workers[w].j - workers[w].from) + CompletedTrials(ws \ {w})

\* C26: in the boomerang experiment with an all-zero delta every trial
\* satisfies the match predicate, for every key, alpha and num_steps in 1..8:
\* under every interleaving the counter is the number of trials completed so
\* far, and after the join the counter, what is printed and what is reported
\* for the key equal num_texts_per_key.
C26_ZeroDeltaCountsEveryTrial ==
    /\ \A w \in DOMAIN outcome : outcome[w]
    /\ hpc \in {"spawn", "join", "done"} =>
          counter = CompletedTrials({w \in DOMAIN workers : workers[w].st # "none"})
    /\ ((hpc = "join" /\ mi = nthreads) \/ hpc = "done") =>
          counter = hctx.num_texts_per_key
    /\ printed # -1 => printed = hctx.num_texts_per_key
    /\ \A i \in DOMAIN reports : reports[i] = hctx.num_texts_per_key

\* four trials over all 8 steps, two per worker, joined and reported
C26_Witness ==
    /\ hpc = "done" /\ hctx.num_steps = 8 /\ hctx.num_texts_per_key = 4
    /\ counter = 4 /\ printed = 4
    /\ workers[0].j = 2 /\ workers[1].j = 4


(***************************************************************************)
(* C27                                                                     *)
(***************************************************************************)
\* C27: get_random(ctx, data, num_bytes) has written generator output to every
\* byte index in [0, num_bytes) when it returns: byte k of a full word is byte
\* k mod 8 of word number floor(k/8), and the bytes after the last full word,
\* at offsets 8*floor(num_bytes/8) .. num_bytes-1, are the lowest bytes of one
\* more word; no byte of a full word is overwritten.
C27_GetRandomFillsEveryByte ==
    rd.pc = "returned" =>
        \A k \in 0..(rd.num_bytes - 1) :
            /\ rd.data[k] # -1
            /\ rd.data[k] = rd.drawn[(k \div 8) + 1][k % 8]


(***************************************************************************)
(* C28                                                                     *)
(***************************************************************************)
\* a run has made one more xorshift1024_next call
CallsNext(r) == Len(runs'[r].words) = Len(runs[r].words) + 1

\* C28: the position p of a generator context is always in 0..15; each
\* xorshift1024_next call advances p by 1 modulo 16, overwrites exactly the
\* state word s[new p], leaves the other 15 words unchanged and returns the
\* new s[p] times 1181783497276652981 (0x106689D45497FDB5) modulo 2^64.
C28_NextAdvancesOneWord ==
    /\ [](\A r \in DOMAIN runs : runs[r].xorshift_ctx.p \in 0..15)
    /\ [][\A r \in DOMAIN runs :
             CallsNext(r) =>
                 LET old == runs[r].xorshift_ctx
                     new == runs'[r].xorshift_ctx
                     ret == runs'[r].words[Len(runs'[r].words)]
                 IN  /\ new.p = (old.p + 1) % 16
                     /\ new.s[new.p] # old.s[new.p]
                     /\ \A i \in 0..15 : i # new.p => new.s[i] = old.s[i]
                     /\ ret = MUL64(new.s[new.p],
                                    U64(\h10, \h66, \h89, \hd4, \h54, \h97, \hfd, \hb5))
                     /\ ret[0] = (new.s[new.p][0] * \hb5) % 256
         ]_vars

\* a context that was at position 15 has made a call and is at position 0
C28_Witness ==
    /\ runs # <<>>
    /\ Len(runs[1].words) = 1 /\ runs[1].xorshift_ctx.p = 0

(***************************************************************************)
(* C29: the big-endian conversions are mutually consistent.  Whenever a     *)
(* buffer has been taken through to_uint16(bytes), to_uint8(words),         *)
(* to_uint64(bytes), to_uint64(words) and to_uint8(uint64) in any order and *)
(* is back in the type it started in, it holds the value it started with    *)
(* (to_uint8(to_uint16(b)) = b, to_uint16(to_uint8(w)) = w,                 *)
(* to_uint8(to_uint64(b)) = b); and a byte array brought to a uint64_t by   *)
(* way of its words holds to_uint64(b), byte 0 being the most significant.  *)
(***************************************************************************)
NamedConversionsOnly ==
    \A i \in DOMAIN conv.hist : conv.hist[i] # <<"uint64", "uint16">>

C29_ConversionsConsistent ==
    (conv # <<>> /\ conv.hist # <<>> /\ NamedConversionsOnly) =>
        /\ conv.kind = conv.okind => conv.val = conv.orig
        /\ (conv.okind = "uint8" /\ conv.kind = "uint64") =>
              /\ conv.val = to_uint64_from_uint8(conv.orig)
              /\ \A i \in 0..7 : ByteAtShift(conv.val, 8 * (7 - i)) = conv.orig[i]

C29_Witness ==
    /\ conv # <<>>
    /\ conv.orig = DocBytes
    /\ conv.hist = <<<<"uint8", "uint16">>, <<"uint16", "uint64">>>>
    /\ conv.val = <<\h0001, \h0203, \h0405, \h0607>>


(***************************************************************************)
(* C30: check_difference(c1, c2, delta_l, delta_r) is a pure function of    *)
(* the two stored 64-bit values: it returns, and returns true exactly when  *)
(* the low 32 bits of c1 XOR c2 equal delta_r and the high 32 bits equal    *)
(* delta_l, reading no memory other than the two values.                    *)
(***************************************************************************)
ValuesMatch ==
    /\ XOR16(chk.c1[2], chk.c2[2]) = chk.delta_r
    /\ XOR16(chk.c1[1], chk.c2[1]) = chk.delta_l

C30_CheckDifferenceIsPure ==
    (chk # <<>> /\ chk.pc # "call") =>
        /\ chk.pc = "returned"
        /\ chk.result = ValuesMatch
        /\ chk.reads = {}

\* the values differ by exactly the deltas, every address read is mapped and
\* holds 0, and the call returns false
MatchMissed ==
    /\ chk # <<>> /\ chk.pc = "returned"
    /\ chk.c1 = <<0, 1>> /\ chk.c2 = <<0, 2>>
    /\ chk.delta_l = 0 /\ chk.delta_r = 3
    /\ ValuesMatch /\ ~chk.result


====
